---- MODULE Spec2Model ----
(***************************************************************************)
(* Model of the gist-server caching proxy: the asyncio TTL cache           *)
(* (app/services/cache.py), its background cleanup task and its            *)
(* start/stop lifecycle, and the read-through endpoint                     *)
(* (app/routers/gists.py).                                                 *)
(*                                                                         *)
(* Time is an integer clock `now`.  The dict `_cache` is a sequence of     *)
(* (key, entry) pairs in dict (insertion) order, because min() and the     *)
(* sweep iterate the dict in that order.  Every `await` is a scheduling    *)
(* point; the statements between two awaits of one task are one step.      *)
(***************************************************************************)
EXTENDS Integers, Sequences, FiniteSets, TLC

\* ------------------------------------------------------------- bounds ----
MaxTime == 2            \* the clock runs 0..MaxTime
MaxTasks == 3           \* cleanup tasks ever created
MaxName == 2            \* longest username given to make_cache_key

\* The cache under study: TTLCache(ttl_seconds=1, max_size=2, cleanup_interval=1)
max_size == 2
ttl_seconds == 1
cleanup_interval == 1

Clients == {1, 2}       \* concurrent callers of get/set/delete/clear
Callers == {1, 2}       \* concurrent callers of start/stop
Tasks == 1..MaxTasks

\* ------------------------------------------------------ make_cache_key ----
\* Mutant of lower_char: the username goes into the key as it was given.
lower_char_same(ch) == ch

\* A username is a sequence of characters; str.lower() maps each one.
lower_char(ch) ==
    CASE ch = "O" -> "o"
      [] ch = "B" -> "b"
      [] OTHER -> ch

RECURSIVE lower(_)
lower(u) == IF u = <<>> THEN <<>> ELSE <<lower_char(Head(u))>> \o lower(Tail(u))

Digit(d) == CASE d = 0 -> "0" [] d = 1 -> "1" [] d = 2 -> "2" [] d = 3 -> "3"
              [] d = 4 -> "4" [] d = 5 -> "5" [] d = 6 -> "6" [] d = 7 -> "7"
              [] d = 8 -> "8" [] d = 9 -> "9"

\* str(n) of a non-negative int, as a sequence of characters.
RECURSIVE str(_)
str(n) == IF n < 10 THEN <<Digit(n)>> ELSE str(n \div 10) \o <<Digit(n % 10)>>

\* Mutant of make_cache_key: page and per_page are joined without the text
\* that separates them.
make_cache_key_joined(username, page, per_page) ==
    <<"g", "i", "s", "t", "s", ":">> \o lower(username)
        \o <<":", "p", "a", "g", "e", "=">> \o str(page) \o str(per_page)

make_cache_key(username, page, per_page) ==
    <<"g", "i", "s", "t", "s", ":">> \o lower(username)
        \o <<":", "p", "a", "g", "e", "=">> \o str(page)
        \o <<":", "p", "e", "r", "_", "p", "a", "g", "e", "=">> \o str(per_page)

Usernames == {<<"O">>, <<"o">>, <<"b">>, <<"B">>, <<"c">>}
Pages == {1}
PerPages == {3}
Keys == {make_cache_key(u, p, s) : u \in Usernames, p \in Pages, s \in PerPages}
Values == {"v1", "v2"}

\* ---------------------------------------------------------- CacheEntry ----
None == "None"
NoEntry == [value |-> None, expires_at |-> -1, created_at |-> -1]

\* Mutant of CacheEntry: the created_at default is evaluated once, when the
\* class is defined.
CacheEntry_once(value, expires_at, created_at) ==
    [value |-> value, expires_at |-> expires_at, created_at |-> 0]

CacheEntry(value, expires_at, created_at) ==
    [value |-> value, expires_at |-> expires_at, created_at |-> created_at]

\* The arguments of a set call; NoCall where none was issued
Call(k, v) == [key |-> k, value |-> v]
NoCall == Call(<<>>, None)

\* ------------------------------------------- GitHubClient, exceptions ----
\* A str that the code formats from pieces is the sequence of the pieces.
\* Response headers are a function from the names that are present.
Remaining == "X-RateLimit-Remaining"
Reset == "X-RateLimit-Reset"
Absent == "absent"
Headers(remaining, reset) ==
    [n \in {m \in {Remaining, Reset} : (m = Remaining /\ remaining # Absent)
                                        \/ (m = Reset /\ reset # Absent)}
        |-> IF n = Remaining THEN remaining ELSE reset]
NoHeaders == Headers(Absent, Absent)

\* response.headers.get(name, default)
headers_get(headers, name, default) ==
    IF name \in DOMAIN headers THEN headers[name] ELSE default

\* What `await self._client.get(...)` gives: a response, or an httpx
\* exception named by its class.
HttpxResponse(status_code, headers, text, data) ==
    [kind |-> "Response", status_code |-> status_code, headers |-> headers,
     text |-> text, data |-> data]
HttpxError(class) ==
    [kind |-> class, status_code |-> 0, headers |-> NoHeaders, text |-> class,
     data |-> <<>>]
NoOutcome == HttpxError("none")

\* httpx's class tree: TimeoutException is a TransportError, which is a
\* RequestError.
IsTimeoutException(o) == o.kind \in {"ConnectTimeout", "ReadTimeout"}
IsRequestError(o) == o.kind \in {"ConnectTimeout", "ReadTimeout", "ConnectError"}

GitHubUserNotFoundError(username) ==
    [type |-> "GitHubUserNotFoundError", username |-> username]
GitHubAPIError(status_code, message) ==
    [type |-> "GitHubAPIError", status_code |-> status_code, message |-> message]
GitHubRateLimitError(reset_time) ==
    [type |-> "GitHubRateLimitError", reset_time |-> reset_time]
Returned(value) == [type |-> "return", value |-> value]
NoResult == [type |-> "none"]

\* _parse_gist on the fields the model keeps: "truncated" is False when the
\* data has none.
parse_gist(data) ==
    [id |-> data.id, owner |-> data.owner,
     truncated |-> IF "truncated" \in DOMAIN data THEN data.truncated ELSE FALSE]

\* Mutant of client_get_user_gists: a 403 without the X-RateLimit-Remaining
\* header is not taken for a rate limit, and a timeout is not told from
\* the other request errors.
client_get_user_gists_strict(username, o) ==
    IF IsRequestError(o)
    THEN GitHubAPIError(502, <<"Failed to connect to GitHub API: ", o.text>>)
    ELSE IF o.status_code = 404 THEN GitHubUserNotFoundError(username)
    ELSE IF o.status_code = 403
    THEN IF headers_get(o.headers, Remaining, "") = "0"
         THEN GitHubRateLimitError(headers_get(o.headers, Reset, None))
         ELSE GitHubAPIError(403, <<"Access forbidden">>)
    ELSE IF o.status_code # 200 THEN GitHubAPIError(o.status_code, <<o.text>>)
    ELSE Returned([i \in 1..Len(o.data) |-> parse_gist(o.data[i])])

\* GitHubClient.get_user_gists from the outcome of its HTTP request to what
\* it returns or raises.
client_get_user_gists(username, o) ==
    IF IsTimeoutException(o)
    THEN GitHubAPIError(504, <<"GitHub API request timed out">>)
    ELSE IF IsRequestError(o)
    THEN GitHubAPIError(502, <<"Failed to connect to GitHub API: ", o.text>>)
    ELSE IF o.status_code = 404 THEN GitHubUserNotFoundError(username)
    ELSE IF o.status_code = 403
    THEN IF headers_get(o.headers, Remaining, "0") = "0"
         THEN GitHubRateLimitError(headers_get(o.headers, Reset, None))
         ELSE GitHubAPIError(403, <<"Access forbidden">>)
    ELSE IF o.status_code # 200 THEN GitHubAPIError(o.status_code, <<o.text>>)
    ELSE Returned([i \in 1..Len(o.data) |-> parse_gist(o.data[i])])

JSONResponse(status_code, headers, content) ==
    [status_code |-> status_code, headers |-> headers, content |-> content]
Content(error, message, detail) ==
    [error |-> error, message |-> message, detail |-> detail]
NoJSON == JSONResponse(0, NoHeaders, Content("", <<>>, <<>>))

\* `if exc.reset_time`
Truthy(x) == x # None /\ x # ""

github_user_not_found_handler(exc) ==
    JSONResponse(404, NoHeaders,
        Content("user_not_found",
                <<"GitHub user '">> \o exc.username \o <<"' not found">>,
                <<"The specified username does not exist on GitHub">>))

\* Mutant of github_api_error_handler: the status of the error is passed on.
github_api_error_handler_status(exc) ==
    JSONResponse(exc.status_code, NoHeaders,
        Content("github_api_error", <<"Error communicating with GitHub API">>,
                exc.message))

github_api_error_handler(exc) ==
    JSONResponse(502, NoHeaders,
        Content("github_api_error", <<"Error communicating with GitHub API">>,
                exc.message))

\* Mutant of github_rate_limit_handler: the header is set whatever the
\* reset time is.
github_rate_limit_handler_header(exc) ==
    JSONResponse(429, Headers(Absent, exc.reset_time),
        Content("rate_limit_exceeded", <<"GitHub API rate limit exceeded">>,
                <<"Rate limit resets at: ", exc.reset_time>>))

\* The detail is None, here <<>>, when there is no reset time.
github_rate_limit_handler(exc) ==
    JSONResponse(429,
        IF Truthy(exc.reset_time) THEN Headers(Absent, exc.reset_time) ELSE NoHeaders,
        Content("rate_limit_exceeded", <<"GitHub API rate limit exceeded">>,
                IF Truthy(exc.reset_time)
                THEN <<"Rate limit resets at: ", exc.reset_time>> ELSE <<>>))

\* The handler that create_app registered for the class of exc.
exception_handler(exc) ==
    CASE exc.type = "GitHubUserNotFoundError" -> github_user_not_found_handler(exc)
      [] exc.type = "GitHubAPIError" -> github_api_error_handler(exc)
      [] exc.type = "GitHubRateLimitError" -> github_rate_limit_handler(exc)

\* One request as far as the GitHub client and the boundary are concerned.
Http(st, username, upstream, result, response) ==
    [stage |-> st, username |-> username, upstream |-> upstream,
     result |-> result, response |-> response]
NoHttp == Http("idle", <<>>, NoOutcome, NoResult, NoJSON)

VARIABLES
    cache,          \* TTLCache._cache, in dict order
    self_max_size,  \* TTLCache._max_size
    now,            \* datetime.now(timezone.utc)
    lock,           \* TTLCache._lock: 0 free, c a client, -t a cleanup task
    cleanup_task,   \* TTLCache._cleanup_task: 0 is None, else a task id
    tstate,         \* per cleanup task: "new", "sleep", "wait", "sweep", "done"
    tcancel,        \* per cleanup task: cancel() was called on it
    twake,          \* per cleanup task: when its asyncio.sleep ends
    pc,             \* per client: "idle", "wait", "locked", "insert"
    key,            \* per client in set: the key argument
    val,            \* per client in set: the value argument
    victim,         \* per client in set: the key its eviction removed, or <<>>
    batch,          \* history: per client, the set(key, value) call it issued in
                    \* a batch of concurrent calls, or NoCall
    ret,            \* the most recent return of get/set/delete/clear, with its history
    lpc,            \* per lifecycle caller: "idle", "await"
    lawait,         \* per lifecycle caller: the task its stop() awaits
    calls,          \* history of start/stop: "" at first, "stopping" while a
                    \* stop() awaits, "stop" once it returned, "start" after one
                    \* start() call since, "start+" after more
    stage,          \* per client: where its get_user_gists request is:
                    \* "idle" (none), "get", "fetch", "set"
    rq,             \* per client in a request: username, page, per_page
    cached_gists,   \* per client in a request: what cache.get returned
    gists,          \* per client in a request: what the fetch returned
    nfetch,         \* per client in a request: calls of github_client.get_user_gists
    nset,           \* per client in a request: calls of cache.set
    resp,           \* the most recent response of get_user_gists, with its history
    landed,         \* history: one request that completed on a miss (its
                    \* identity, items and the expires_at of its entry),
                    \* whether a later set has replaced its entry, and the
                    \* username of the last request answered from the cache
                    \* since
    http,           \* per client: its request to GitHub, what the client
                    \* made of the outcome and the response at the boundary
    CACHE,          \* the legacy server's dict: cache_key to (data, timestamp)
    flask,          \* per client: its request to the legacy server, the
                    \* upstream calls made for it and the response
    stored          \* history: the last legacy request that stored its data

vars == <<cache, self_max_size, now, lock, cleanup_task, tstate, tcancel, twake,
          pc, key, val, victim, batch, ret, lpc, lawait, calls,
          stage, rq, cached_gists, gists, nfetch, nset, resp, landed, http,
          CACHE, flask, stored>>

taskvars == <<tstate, tcancel, twake>>
argvars == <<key, val, victim, batch>>
lifevars == <<cleanup_task, lpc, lawait, calls>>
legacyvars == <<CACHE, flask, stored>>
reqvars == <<stage, rq, cached_gists, gists, nfetch, nset, resp, landed, http, legacyvars>>

\* ----------------------------------------------- legacy server (app.py) ----
CACHE_TTL == 1

\* One request to the legacy server: where it stands, its route and query
\* arguments, the calls of requests.get made for it, and its response.
Flask(st, username, page, per_page, ncalls, response) ==
    [stage |-> st, username |-> username, page |-> page, per_page |-> per_page,
     calls |-> ncalls, response |-> response]
LegacyResponse(status_code, json, x_cache) ==
    [status_code |-> status_code, json |-> json, x_cache |-> x_cache]
NoLegacyResponse == LegacyResponse(0, None, "")
NoFlask == Flask("idle", <<>>, 0, 0, 0, NoLegacyResponse)
NoStored == [username |-> <<>>, page |-> 0, per_page |-> 0, data |-> None, at |-> -1]

\* f"{username}:{page}:{per_page}"
legacy_cache_key(username, page, per_page) ==
    username \o <<":">> \o str(page) \o <<":">> \o str(per_page)

\* CACHE is a function from the keys it holds to (data, timestamp).
CacheWithout(k) == [j \in DOMAIN CACHE \ {k} |-> CACHE[j]]
CacheWith(k, data, timestamp) ==
    [j \in DOMAIN CACHE \cup {k} |->
        IF j = k THEN [data |-> data, timestamp |-> timestamp] ELSE CACHE[j]]

\* get_cached: what it returns, and CACHE after it.
get_cached(k) ==
    IF k \in DOMAIN CACHE /\ now - CACHE[k].timestamp < CACHE_TTL
    THEN CACHE[k].data ELSE None
get_cached_CACHE(k) ==
    IF k \in DOMAIN CACHE /\ ~(now - CACHE[k].timestamp < CACHE_TTL)
    THEN CacheWithout(k) ELSE CACHE

\* `if cached`: None and the empty list are false.
IfCached(cached) == cached # None /\ cached # "[]"

\* Mutant of is_expired: the instant of expiry still counts as fresh.
is_expired_late(entry, t) == t > entry.expires_at

\* CacheEntry.is_expired, read at clock value t
is_expired(entry, t) == t >= entry.expires_at

\* ------------------------------------------------------ dict operations ----
DictKeys(d) == {d[i].key : i \in 1..Len(d)}

\* dict.get(key): the entry, or NoEntry for None
DictGet(d, k) ==
    IF k \in DictKeys(d)
    THEN d[CHOOSE i \in 1..Len(d) : d[i].key = k].entry
    ELSE NoEntry

\* del d[key]
DictDel(d, k) == SelectSeq(d, LAMBDA x : x.key # k)

\* Mutant of DictSet: an existing key keeps its old entry (setdefault).
DictSet_keep(d, k, e) ==
    IF k \in DictKeys(d) THEN d ELSE Append(d, [key |-> k, entry |-> e])

\* d[key] = entry: an existing key keeps its place, a new key goes last
DictSet(d, k, e) ==
    IF k \in DictKeys(d)
    THEN [i \in 1..Len(d) |-> IF d[i].key = k THEN [key |-> k, entry |-> e] ELSE d[i]]
    ELSE Append(d, [key |-> k, entry |-> e])

\* min(d.keys(), key=created_at): the first key, in dict order, of minimal created_at
MinCreatedKeyFirst(d) ==
    LET first == CHOOSE i \in 1..Len(d) :
                    /\ \A j \in 1..Len(d) : d[i].entry.created_at <= d[j].entry.created_at
                    /\ \A j \in 1..(i - 1) : d[j].entry.created_at # d[i].entry.created_at
    IN d[first].key

\* Mutant of evict_oldest_unlocked: the newest entry goes.
evict_newest(d) ==
    IF d = <<>> THEN d
    ELSE DictDel(d, (CHOOSE x \in {d[i] : i \in 1..Len(d)} :
                        \A j \in 1..Len(d) : x.entry.created_at >= d[j].entry.created_at).key)

\* TTLCache._evict_oldest_unlocked
evict_oldest_unlocked(d) ==
    IF d = <<>> THEN d ELSE DictDel(d, MinCreatedKeyFirst(d))

\* Mutant of AtCapacity: off by one.
AtCapacity_late(d) == Len(d) > self_max_size

\* set's capacity test: len(self._cache) >= self._max_size
AtCapacity(d) == Len(d) >= self_max_size

\* Mutant of LockFree: no lock.
LockFree_always == TRUE

\* asyncio.Lock.acquire returns at once only when the lock is not held
LockFree == lock = 0

\* What a call returned: (value, entry) of get, the entry of set, True/False of
\* delete.  op names the method; path and evicted are history: the branch get
\* returned from ("hit", "miss", "expired") and the key a set evicted.
Return(o, path, value, entry, evicted) ==
    [op |-> o, path |-> path, value |-> value, entry |-> entry, evicted |-> evicted]
NoRet == Return("none", "", None, NoEntry, <<>>)

\* What a finished request leaves: the GistListResponse fields (gists, cached,
\* cache_expires_at) or the exception raised, with the request's history:
\* what cache.get returned, how often it fetched and set.
Response(got, g, c, exp, err, nf, ns) ==
    [got |-> got, gists |-> g, cached |-> c, cache_expires_at |-> exp,
     error |-> err, fetches |-> nf, sets |-> ns]
NoResp == Response(None, None, FALSE, -1, "none", 0, 0)
NoRq == [username |-> <<>>, page |-> 0, per_page |-> 0]
NoLanded == [rq |-> NoRq, gists |-> None, expires_at |-> -1, replaced |-> FALSE,
             served |-> <<>>]

\* No request is being handled.
InitRequests ==
    /\ stage = [c \in Clients |-> "idle"]
    /\ rq = [c \in Clients |-> NoRq]
    /\ cached_gists = [c \in Clients |-> None]
    /\ gists = [c \in Clients |-> None]
    /\ nfetch = [c \in Clients |-> 0]
    /\ nset = [c \in Clients |-> 0]
    /\ resp = NoResp
    /\ landed = NoLanded
    /\ http = [c \in Clients |-> NoHttp]
    /\ CACHE = <<>>
    /\ flask = [c \in Clients |-> NoFlask]
    /\ stored = NoStored

Init ==
    /\ cache = <<>>
    /\ self_max_size = max_size
    /\ now = 0
    /\ lock = 0
    /\ cleanup_task = 0
    /\ tstate = [t \in Tasks |-> "new"]
    /\ tcancel = [t \in Tasks |-> FALSE]
    /\ twake = [t \in Tasks |-> 0]
    /\ pc = [c \in Clients |-> "idle"]
    /\ key = [c \in Clients |-> <<>>]
    /\ val = [c \in Clients |-> None]
    /\ victim = [c \in Clients |-> <<>>]
    /\ batch = [c \in Clients |-> NoCall]
    /\ ret = NoRet
    /\ lpc = [l \in Callers |-> "idle"]
    /\ lawait = [l \in Callers |-> 0]
    /\ calls = ""
    /\ InitRequests

\* The clock advances.
Tick ==
    /\ now < MaxTime
    /\ now' = now + 1
    /\ UNCHANGED <<cache, lock, taskvars, pc, argvars, ret, lifevars, reqvars, self_max_size>>

\* --------------------------------------------------- get/set/delete/clear ----
\* A client calls get, set, delete or clear and reaches `async with self._lock`.
Enter(c) ==
    /\ pc[c] = "idle" /\ stage[c] = "idle"
    /\ pc' = [pc EXCEPT ![c] = "wait"]
    /\ UNCHANGED <<cache, lock, now, taskvars, argvars, ret, lifevars, reqvars, self_max_size>>

\* `async with self._lock` is entered.
Acquire(c) ==
    /\ pc[c] = "wait"
    /\ LockFree
    /\ lock' = c
    /\ pc' = [pc EXCEPT ![c] = "locked"]
    /\ UNCHANGED <<cache, now, taskvars, argvars, ret, lifevars, reqvars, self_max_size>>

\* Mutant of get: a hit makes the entry the most recently used one, as an
\* LRU cache would (move_to_end, and a new created_at).
get_touch(c, k) ==
    /\ pc[c] = "locked" /\ stage[c] = "idle"
    /\ LET entry == DictGet(cache, k) IN
        IF entry = NoEntry
        THEN /\ ret' = Return("get", "miss", None, NoEntry, <<>>)
             /\ cache' = cache
        ELSE IF is_expired(entry, now)
        THEN /\ cache' = DictDel(cache, k)
             /\ ret' = Return("get", "expired", None, NoEntry, <<>>)
        ELSE /\ ret' = Return("get", "hit", entry.value, entry, <<>>)
             /\ cache' = Append(DictDel(cache, k),
                               [key |-> k, entry |-> [entry EXCEPT !.created_at = now]])
    /\ lock' = 0
    /\ pc' = [pc EXCEPT ![c] = "idle"]
    /\ UNCHANGED <<now, taskvars, argvars, lifevars, reqvars, self_max_size>>

\* Mutant of get: `entry = self._cache[key]`, which raises KeyError for an
\* absent key; the exception leaves the lock and reaches the caller.
get_subscript(c, k) ==
    /\ pc[c] = "locked" /\ stage[c] = "idle"
    /\ LET entry == DictGet(cache, k) IN
        IF entry = NoEntry
        THEN /\ ret' = Return("get", "KeyError", "KeyError", NoEntry, <<>>)
             /\ cache' = cache
        ELSE IF is_expired(entry, now)
        THEN /\ cache' = DictDel(cache, k)
             /\ ret' = Return("get", "expired", None, NoEntry, <<>>)
        ELSE /\ ret' = Return("get", "hit", entry.value, entry, <<>>)
             /\ cache' = cache
    /\ lock' = 0
    /\ pc' = [pc EXCEPT ![c] = "idle"]
    /\ UNCHANGED <<now, taskvars, argvars, lifevars, reqvars, self_max_size>>

\* TTLCache.get(k), inside the lock
get(c, k) ==
    /\ pc[c] = "locked" /\ stage[c] = "idle"
    /\ LET entry == DictGet(cache, k) IN
        IF entry = NoEntry
        THEN /\ ret' = Return("get", "miss", None, NoEntry, <<>>)
             /\ cache' = cache
        ELSE IF is_expired(entry, now)
        THEN /\ cache' = DictDel(cache, k)
             /\ ret' = Return("get", "expired", None, NoEntry, <<>>)
        ELSE /\ ret' = Return("get", "hit", entry.value, entry, <<>>)
             /\ cache' = cache
    /\ lock' = 0
    /\ pc' = [pc EXCEPT ![c] = "idle"]
    /\ UNCHANGED <<now, taskvars, argvars, lifevars, reqvars, self_max_size>>

\* The key that is in d and no longer in e, or <<>>
Gone(d, e) ==
    IF DictKeys(d) \subseteq DictKeys(e) THEN <<>>
    ELSE CHOOSE k \in DictKeys(d) : k \notin DictKeys(e)

\* TTLCache.set(k, v), first half: the capacity test and the awaited eviction
set_evict(c, k, v) ==
    /\ pc[c] = "locked"
    /\ cache' = IF AtCapacity(cache) THEN evict_oldest_unlocked(cache) ELSE cache
    /\ pc' = [pc EXCEPT ![c] = "insert"]
    /\ key' = [key EXCEPT ![c] = k]
    /\ val' = [val EXCEPT ![c] = v]
    /\ victim' = [victim EXCEPT ![c] = Gone(cache, cache')]
    /\ UNCHANGED <<lock, now, taskvars, batch, ret, lifevars, reqvars, self_max_size>>

\* TTLCache.set, second half: the entry is built and stored.  expires_at
\* reads the clock first, the created_at default reads it again (d later).
set_insert(c) ==
    /\ pc[c] = "insert" /\ stage[c] = "idle"
    /\ \E d \in {0, 1} :
          /\ now + d <= MaxTime
          /\ now' = now + d
          /\ LET entry == CacheEntry(val[c], now + ttl_seconds, now + d) IN
                /\ cache' = DictSet(cache, key[c], entry)
                /\ ret' = Return("set", "", val[c], entry, victim[c])
    /\ lock' = 0
    /\ pc' = [pc EXCEPT ![c] = "idle"]
    /\ key' = [key EXCEPT ![c] = <<>>]
    /\ val' = [val EXCEPT ![c] = None]
    /\ victim' = [victim EXCEPT ![c] = <<>>]
    /\ UNCHANGED <<taskvars, batch, lifevars, reqvars, self_max_size>>

\* Mutant of delete: `self._cache.pop(key, None); return True`.
delete_pop(c, k) ==
    /\ pc[c] = "locked" /\ stage[c] = "idle"
    /\ cache' = DictDel(cache, k)
    /\ ret' = Return("delete", "", "True", NoEntry, <<>>)
    /\ lock' = 0
    /\ pc' = [pc EXCEPT ![c] = "idle"]
    /\ UNCHANGED <<now, taskvars, argvars, lifevars, reqvars, self_max_size>>

\* TTLCache.delete(k), inside the lock; it returns True or False
delete(c, k) ==
    /\ pc[c] = "locked" /\ stage[c] = "idle"
    /\ IF k \in DictKeys(cache)
       THEN /\ cache' = DictDel(cache, k)
            /\ ret' = Return("delete", "", "True", NoEntry, <<>>)
       ELSE /\ cache' = cache
            /\ ret' = Return("delete", "", "False", NoEntry, <<>>)
    /\ lock' = 0
    /\ pc' = [pc EXCEPT ![c] = "idle"]
    /\ UNCHANGED <<now, taskvars, argvars, lifevars, reqvars, self_max_size>>

\* Mutant of clear: only the expired entries go.
clear_expired(c) ==
    /\ pc[c] = "locked" /\ stage[c] = "idle"
    /\ cache' = SelectSeq(cache, LAMBDA x : ~is_expired(x.entry, now))
    /\ ret' = Return("clear", "", None, NoEntry, <<>>)
    /\ lock' = 0
    /\ pc' = [pc EXCEPT ![c] = "idle"]
    /\ UNCHANGED <<now, taskvars, argvars, lifevars, reqvars, self_max_size>>

\* TTLCache.clear(), inside the lock
clear(c) ==
    /\ pc[c] = "locked" /\ stage[c] = "idle"
    /\ cache' = <<>>
    /\ ret' = Return("clear", "", None, NoEntry, <<>>)
    /\ lock' = 0
    /\ pc' = [pc EXCEPT ![c] = "idle"]
    /\ UNCHANGED <<now, taskvars, argvars, lifevars, reqvars, self_max_size>>

\* TTLCache.stats(): a plain method, no await and no lock; it reads
\* len(self._cache) and the two constructor values.
stats(d) == [size |-> Len(d), max_size |-> self_max_size, ttl_seconds |-> ttl_seconds]

\* ------------------------------------------------------- _cleanup_loop ----
\* Mutant of sweep: the pass stops after the first expired entry.
sweep_one(d, t) ==
    IF \E i \in 1..Len(d) : is_expired(d[i].entry, t)
    THEN DictDel(d, d[CHOOSE i \in 1..Len(d) :
                         /\ is_expired(d[i].entry, t)
                         /\ \A j \in 1..(i - 1) : ~is_expired(d[j].entry, t)].key)
    ELSE d

\* The sweep: every entry whose is_expired is true is deleted.
sweep(d, t) == SelectSeq(d, LAMBDA x : ~is_expired(x.entry, t))

\* `await asyncio.sleep(self._cleanup_interval)` returns.
cleanup_wake(t) ==
    /\ tstate[t] = "sleep" /\ ~tcancel[t]
    /\ now >= twake[t]
    /\ tstate' = [tstate EXCEPT ![t] = "wait"]
    /\ UNCHANGED <<cache, lock, now, tcancel, twake, pc, argvars, ret, lifevars, reqvars,
                   self_max_size>>

\* The loop enters `async with self._lock`.
cleanup_acquire(t) ==
    /\ tstate[t] = "wait" /\ ~tcancel[t]
    /\ LockFree
    /\ lock' = -t
    /\ tstate' = [tstate EXCEPT ![t] = "sweep"]
    /\ UNCHANGED <<cache, now, tcancel, twake, pc, argvars, ret, lifevars, reqvars,
                   self_max_size>>

\* Mutant of cleanup_sweep: no `while True`, the task ends after one pass.
cleanup_sweep_once(t) ==
    /\ tstate[t] = "sweep"
    /\ cache' = sweep(cache, now)
    /\ lock' = 0
    /\ tstate' = [tstate EXCEPT ![t] = "done"]
    /\ UNCHANGED <<now, twake, tcancel, pc, argvars, ret, lifevars, reqvars, self_max_size>>

\* One pass inside the lock, then the loop sleeps again.
cleanup_sweep(t) ==
    /\ tstate[t] = "sweep"
    /\ cache' = sweep(cache, now)
    /\ lock' = 0
    /\ tstate' = [tstate EXCEPT ![t] = "sleep"]
    /\ twake' = [twake EXCEPT ![t] = now + cleanup_interval]
    /\ UNCHANGED <<now, tcancel, pc, argvars, ret, lifevars, reqvars, self_max_size>>

\* Mutant of cleanup_cancelled: CancelledError also reaches the task inside
\* `async with self._lock`, and the lock is not released on the way out.
cleanup_cancelled_locked(t) ==
    /\ tstate[t] \in {"sleep", "wait", "sweep"} /\ tcancel[t]
    /\ tstate' = [tstate EXCEPT ![t] = "done"]
    /\ UNCHANGED <<cache, lock, now, tcancel, twake, pc, argvars, ret, lifevars, reqvars,
                   self_max_size>>

\* CancelledError is raised in the task at the await it is suspended in
\* (the sleep or the lock's acquire); the loop does not catch it.
cleanup_cancelled(t) ==
    /\ tstate[t] \in {"sleep", "wait"} /\ tcancel[t]
    /\ tstate' = [tstate EXCEPT ![t] = "done"]
    /\ UNCHANGED <<cache, lock, now, tcancel, twake, pc, argvars, ret, lifevars, reqvars,
                   self_max_size>>

\* --------------------------------------------------------------- stats ----
\* Mutant of AtAwait: the eviction that set awaits yields to the event loop
\* (an `await asyncio.sleep(0)` in _evict_oldest_unlocked).
AtAwait_insert(c) == pc[c] \in {"idle", "wait", "insert"}

\* A client's task is suspended, so that another task can run: it is outside
\* the cache or waits in `async with self._lock`.  Inside the lock no await
\* suspends: `await self._evict_oldest_unlocked()` runs to its end at once.
AtAwait(c) == pc[c] \in {"idle", "wait"}

\* The cleanup task is asleep, waits for the lock, or does not run; its pass
\* inside the lock has no await.
LoopAtAwait(t) == tstate[t] # "sweep"

\* A client calls stats(): a plain call, run between two awaits of the caller
\* while every other task is suspended.  The dict it returns is kept in the
\* entry field of ret.
stats_call(c) ==
    /\ pc[c] = "idle" /\ stage[c] = "idle"
    /\ \A o \in Clients : AtAwait(o)
    /\ \A t \in Tasks : LoopAtAwait(t)
    /\ ret' = Return("stats", "", None, stats(cache), <<>>)
    /\ UNCHANGED <<cache, lock, now, taskvars, pc, argvars, lifevars, reqvars, self_max_size>>

\* ----------------------------------------------------------- start/stop ----
Alive(t) == tstate[t] \notin {"new", "done"}
NewTask == CHOOSE t \in Tasks : tstate[t] = "new" /\ \A u \in Tasks : tstate[u] = "new" => t <= u

\* Mutant of NotStarted: start() does not look at the handle.
NotStarted_always == TRUE

\* `if self._cleanup_task is None`
NotStarted == cleanup_task = 0

\* TTLCache.start
start(l) ==
    /\ lpc[l] = "idle"
    /\ IF NotStarted
       THEN /\ \E t \in Tasks : tstate[t] = "new"
            /\ tstate' = [tstate EXCEPT ![NewTask] = "sleep"]
            /\ twake' = [twake EXCEPT ![NewTask] = now + cleanup_interval]
            /\ cleanup_task' = NewTask
       ELSE UNCHANGED <<tstate, twake, cleanup_task>>
    /\ calls' = IF calls \in {"start", "start+"} THEN "start+" ELSE "start"
    /\ UNCHANGED <<cache, lock, now, tcancel, pc, argvars, ret, lpc, lawait, reqvars,
                   self_max_size>>

\* `if self._cleanup_task`
HasTask == cleanup_task # 0

\* Mutant of stop: the task is cancelled but not awaited.
stop_noawait(l) ==
    /\ lpc[l] = "idle"
    /\ IF HasTask
       THEN /\ tcancel' = [tcancel EXCEPT ![cleanup_task] = @ \/ tstate[cleanup_task] # "done"]
            /\ cleanup_task' = 0
       ELSE UNCHANGED <<tcancel, cleanup_task>>
    /\ calls' = "stop"
    /\ UNCHANGED <<cache, lock, now, tstate, twake, pc, argvars, ret, lpc, lawait, reqvars,
                   self_max_size>>

\* Mutant of stop: no test of the handle, so stop on a cache without a task
\* fails on None.cancel().
stop_unguarded(l) ==
    /\ lpc[l] = "idle"
    /\ IF HasTask
       THEN /\ tcancel' = [tcancel EXCEPT ![cleanup_task] = TRUE]
            /\ lpc' = [lpc EXCEPT ![l] = "await"]
            /\ lawait' = [lawait EXCEPT ![l] = cleanup_task]
            /\ UNCHANGED <<cleanup_task, calls>>
       ELSE /\ lpc' = [lpc EXCEPT ![l] = "error"]
            /\ UNCHANGED <<tcancel, cleanup_task, lawait, calls>>
    /\ UNCHANGED <<cache, lock, now, tstate, twake, pc, argvars, ret, reqvars, self_max_size>>

\* TTLCache.stop up to `await self._cleanup_task`; awaiting a task that is
\* already done does not suspend.
stop(l) ==
    /\ lpc[l] = "idle"
    /\ IF HasTask
       THEN /\ tcancel' = [tcancel EXCEPT ![cleanup_task] = @ \/ tstate[cleanup_task] # "done"]
            /\ IF tstate[cleanup_task] = "done"
               THEN /\ cleanup_task' = 0
                    /\ calls' = "stop"
                    /\ UNCHANGED <<lpc, lawait>>
               ELSE /\ lpc' = [lpc EXCEPT ![l] = "await"]
                    /\ lawait' = [lawait EXCEPT ![l] = cleanup_task]
                    /\ calls' = "stopping"
                    /\ UNCHANGED cleanup_task
       ELSE /\ calls' = "stop"
            /\ UNCHANGED <<tcancel, cleanup_task, lpc, lawait>>
    /\ UNCHANGED <<cache, lock, now, tstate, twake, pc, argvars, ret, reqvars, self_max_size>>

\* TTLCache.stop after the awaited task ended: `self._cleanup_task = None`
stop_resume(l) ==
    /\ lpc[l] = "await"
    /\ tstate[lawait[l]] = "done"
    /\ cleanup_task' = 0
    /\ lpc' = [lpc EXCEPT ![l] = "idle"]
    /\ lawait' = [lawait EXCEPT ![l] = 0]
    /\ calls' = "stop"
    /\ UNCHANGED <<cache, lock, now, taskvars, pc, argvars, ret, reqvars, self_max_size>>

\* ------------------------------------------------------ get_user_gists ----
\* What github_client.get_user_gists raises
Errors == {"GitHubUserNotFoundError", "GitHubRateLimitError", "GitHubAPIError"}

\* The requests that arrive: username, page, per_page
ReqUsers == {<<"O">>, <<"b">>}

\* `cache_key = make_cache_key(username, page, per_page)`
cache_key(c) == make_cache_key(rq[c].username, rq[c].page, rq[c].per_page)

\* Mutant of IsHit: `if cached_gists:`, so a cached empty list counts as a miss.
IsHit_truthy(v) == v # None /\ v # "[]"

\* Mutant of IsHit: the handler never takes the cached branch.
IsHit_never(v) == FALSE

\* `if cached_gists is not None`
IsHit(v) == v # None

\* The handler starts: the key is built and `await cache.get(cache_key)`
\* reaches the lock.
request(c, u, p, s) ==
    /\ stage[c] = "idle" /\ pc[c] = "idle"
    /\ rq' = [rq EXCEPT ![c] = [username |-> u, page |-> p, per_page |-> s]]
    /\ stage' = [stage EXCEPT ![c] = "get"]
    /\ pc' = [pc EXCEPT ![c] = "wait"]
    /\ UNCHANGED <<cache, lock, now, taskvars, argvars, ret, lifevars,
                   cached_gists, gists, nfetch, nset, resp, landed, http, legacyvars,
                   self_max_size>>

\* Mutant of get_respond: the fetch is awaited inside `async with self._lock`,
\* so a request that misses keeps the lock while it fetches.
get_respond_holding(c) ==
    /\ stage[c] = "get" /\ pc[c] = "locked"
    /\ LET k == cache_key(c)
           entry == DictGet(cache, k)
           fresh == entry # NoEntry /\ ~is_expired(entry, now)
           value == IF fresh THEN entry.value ELSE None
       IN
        /\ cache' = IF entry # NoEntry /\ ~fresh THEN DictDel(cache, k) ELSE cache
        /\ IF IsHit(value)
           THEN /\ resp' = Response(value, value, TRUE, entry.expires_at, "",
                                    nfetch[c], nset[c])
                /\ stage' = [stage EXCEPT ![c] = "idle"]
                /\ rq' = [rq EXCEPT ![c] = NoRq]
                /\ UNCHANGED <<cached_gists, nfetch>>
           ELSE /\ cached_gists' = [cached_gists EXCEPT ![c] = value]
                /\ nfetch' = [nfetch EXCEPT ![c] = @ + 1]
                /\ stage' = [stage EXCEPT ![c] = "fetch"]
                /\ UNCHANGED <<rq, resp>>
    /\ lock' = IF stage'[c] = "fetch" THEN c ELSE 0
    /\ pc' = [pc EXCEPT ![c] = "idle"]
    /\ UNCHANGED <<now, taskvars, argvars, ret, lifevars, gists, nset, http, legacyvars,
                   self_max_size>>

\* cache.get inside the lock, and the handler up to its next await: on a hit
\* it responds, on a miss it calls github_client.get_user_gists.
get_respond(c) ==
    /\ stage[c] = "get" /\ pc[c] = "locked"
    /\ LET k == cache_key(c)
           entry == DictGet(cache, k)
           fresh == entry # NoEntry /\ ~is_expired(entry, now)
           value == IF fresh THEN entry.value ELSE None
       IN
        /\ cache' = IF entry # NoEntry /\ ~fresh THEN DictDel(cache, k) ELSE cache
        /\ IF IsHit(value)
           THEN /\ resp' = Response(value, value, TRUE, entry.expires_at, "",
                                    nfetch[c], nset[c])
                /\ stage' = [stage EXCEPT ![c] = "idle"]
                /\ rq' = [rq EXCEPT ![c] = NoRq]
                /\ UNCHANGED <<cached_gists, nfetch>>
           ELSE /\ cached_gists' = [cached_gists EXCEPT ![c] = value]
                /\ nfetch' = [nfetch EXCEPT ![c] = @ + 1]
                /\ stage' = [stage EXCEPT ![c] = "fetch"]
                /\ UNCHANGED <<rq, resp>>
    /\ lock' = 0
    /\ pc' = [pc EXCEPT ![c] = "idle"]
    /\ UNCHANGED <<now, taskvars, argvars, ret, lifevars, gists, nset, http, legacyvars,
                   self_max_size>>

request_get(c) ==
    /\ get_respond(c)
    /\ UNCHANGED landed

\* The same step with its history kept: an answer from the cache for the key
\* of the request that `landed` follows is noted there.
request_get_noted(c) ==
    /\ get_respond(c)
    /\ landed' =
          IF /\ landed # NoLanded
             /\ stage'[c] = "idle"
             /\ cache_key(c) = make_cache_key(landed.rq.username, landed.rq.page,
                                              landed.rq.per_page)
          THEN [landed EXCEPT !.served = rq[c].username]
          ELSE landed

\* The fetch returns the gists; `await cache.set(cache_key, gists)` reaches
\* the lock.
fetch_return(c, g) ==
    /\ stage[c] = "fetch"
    /\ gists' = [gists EXCEPT ![c] = g]
    /\ nset' = [nset EXCEPT ![c] = @ + 1]
    /\ stage' = [stage EXCEPT ![c] = "set"]
    /\ pc' = [pc EXCEPT ![c] = "wait"]
    /\ UNCHANGED <<cache, lock, now, taskvars, argvars, ret, lifevars,
                   rq, cached_gists, nfetch, resp, landed, http, legacyvars, self_max_size>>

\* Mutant of fetch_raise: the handler swallows the error and goes on with an
\* empty list, like `except GitHubAPIError: gists = []`.
fetch_raise_swallowed(c, e) ==
    /\ stage[c] = "fetch"
    /\ gists' = [gists EXCEPT ![c] = "[]"]
    /\ nset' = [nset EXCEPT ![c] = @ + 1]
    /\ stage' = [stage EXCEPT ![c] = "set"]
    /\ pc' = [pc EXCEPT ![c] = "wait"]
    /\ UNCHANGED <<cache, lock, now, taskvars, argvars, ret, lifevars,
                   rq, cached_gists, nfetch, resp, landed, http, legacyvars, self_max_size>>

\* The fetch raises; the handler does not catch it.
fetch_raise(c, e) ==
    /\ stage[c] = "fetch"
    /\ resp' = Response(cached_gists[c], None, FALSE, -1, e,
                        nfetch[c], nset[c])
    /\ stage' = [stage EXCEPT ![c] = "idle"]
    /\ rq' = [rq EXCEPT ![c] = NoRq]
    /\ cached_gists' = [cached_gists EXCEPT ![c] = None]
    /\ nfetch' = [nfetch EXCEPT ![c] = 0]
    /\ UNCHANGED <<cache, lock, now, taskvars, pc, argvars, ret, lifevars,
                   gists, nset, landed, http, legacyvars, self_max_size>>

\* cache.set(cache_key, gists), first half, called by the handler
request_set_evict(c) ==
    /\ stage[c] = "set"
    /\ set_evict(c, cache_key(c), gists[c])

\* cache.set, second half, and the handler's response from the entry returned
set_respond(c) ==
    /\ stage[c] = "set" /\ pc[c] = "insert"
    /\ \E d \in {0, 1} :
          /\ now + d <= MaxTime
          /\ now' = now + d
          /\ LET entry == CacheEntry(val[c], now + ttl_seconds, now + d) IN
                /\ cache' = DictSet(cache, key[c], entry)
                /\ resp' = Response(cached_gists[c], gists[c], FALSE,
                                    entry.expires_at, "", nfetch[c], nset[c])
    /\ lock' = 0
    /\ pc' = [pc EXCEPT ![c] = "idle"]
    /\ key' = [key EXCEPT ![c] = <<>>]
    /\ val' = [val EXCEPT ![c] = None]
    /\ victim' = [victim EXCEPT ![c] = <<>>]
    /\ stage' = [stage EXCEPT ![c] = "idle"]
    /\ rq' = [rq EXCEPT ![c] = NoRq]
    /\ cached_gists' = [cached_gists EXCEPT ![c] = None]
    /\ gists' = [gists EXCEPT ![c] = None]
    /\ nfetch' = [nfetch EXCEPT ![c] = 0]
    /\ nset' = [nset EXCEPT ![c] = 0]
    /\ UNCHANGED <<taskvars, batch, ret, lifevars, http, legacyvars, self_max_size>>

request_set_insert(c) ==
    /\ set_respond(c)
    /\ UNCHANGED landed

\* The same step with its history kept: either this request becomes the one
\* that `landed` follows, or the one followed stays, marked as replaced when
\* this set overwrites its entry and forgotten when its key had left the
\* mapping (an eviction or an expiry came between).
request_set_insert_noted(c) ==
    /\ set_respond(c)
    /\ \/ landed' = [rq |-> rq[c], gists |-> gists[c],
                     expires_at |-> now + ttl_seconds, replaced |-> FALSE,
                     served |-> <<>>]
       \/ /\ landed # NoLanded
          /\ landed' =
                IF make_cache_key(landed.rq.username, landed.rq.page,
                                  landed.rq.per_page) # key[c]
                THEN landed
                ELSE IF key[c] \in DictKeys(cache)
                THEN [landed EXCEPT !.replaced = TRUE]
                ELSE NoLanded

\* ------------------------------------------- fetch to HTTP boundary ----
\* The client's request for the gists of u is answered with outcome o.
client_request(c, u, o) ==
    /\ http[c].stage \in {"idle", "done"}
    /\ http' = [http EXCEPT ![c] = Http("sent", u, o, NoResult, NoJSON)]
    /\ UNCHANGED <<cache, lock, now, taskvars, pc, argvars, ret, lifevars,
                   stage, rq, cached_gists, gists, nfetch, nset, resp, landed, legacyvars,
                   self_max_size>>

\* GitHubClient.get_user_gists returns or raises.
client_result(c) ==
    /\ http[c].stage = "sent"
    /\ LET r == client_get_user_gists(http[c].username, http[c].upstream)
       IN http' = [http EXCEPT ![c].result = r,
                               ![c].stage = IF r.type = "return" THEN "returned"
                                            ELSE "raised"]
    /\ UNCHANGED <<cache, lock, now, taskvars, pc, argvars, ret, lifevars,
                   stage, rq, cached_gists, gists, nfetch, nset, resp, landed, legacyvars,
                   self_max_size>>

\* The exception leaves the endpoint and its registered handler answers.
boundary_error(c) ==
    /\ http[c].stage = "raised"
    /\ http' = [http EXCEPT ![c].response = exception_handler(http[c].result),
                            ![c].stage = "done"]
    /\ UNCHANGED <<cache, lock, now, taskvars, pc, argvars, ret, lifevars,
                   stage, rq, cached_gists, gists, nfetch, nset, resp, landed, legacyvars,
                   self_max_size>>

\* The endpoint answers 200 with the gists.
boundary_ok(c) ==
    /\ http[c].stage = "returned"
    /\ http' = [http EXCEPT ![c].response =
                    JSONResponse(200, NoHeaders,
                                 Content("", <<>>, http[c].result.value)),
                            ![c].stage = "done"]
    /\ UNCHANGED <<cache, lock, now, taskvars, pc, argvars, ret, lifevars,
                   stage, rq, cached_gists, gists, nfetch, nset, resp, landed, legacyvars,
                   self_max_size>>

\* The legacy get_user_gists up to its answer from the cache or its call of
\* requests.get.
legacy_request(c, u, p, s) ==
    /\ flask[c].stage \in {"idle", "done"}
    /\ LET k == legacy_cache_key(u, p, s)
           cached == get_cached(k)
       IN /\ CACHE' = get_cached_CACHE(k)
          /\ flask' = [flask EXCEPT ![c] =
                IF IfCached(cached)
                THEN Flask("done", u, p, s, 0, LegacyResponse(200, cached, "HIT"))
                ELSE Flask("fetch", u, p, s, 0, NoLegacyResponse)]
    /\ UNCHANGED <<cache, lock, now, taskvars, pc, argvars, ret, lifevars,
                   stage, rq, cached_gists, gists, nfetch, nset, resp, landed, http,
                   stored, self_max_size>>

\* requests.get answers with a status and, on 200, a body; the rest of the
\* legacy get_user_gists.
legacy_fetch(c, status_code, data) ==
    /\ flask[c].stage = "fetch"
    /\ LET f == flask[c]
           k == legacy_cache_key(f.username, f.page, f.per_page)
           answer(r) == [f EXCEPT !.stage = "done", !.calls = f.calls + 1,
                                  !.response = r]
       IN IF status_code = 404
          THEN /\ flask' = [flask EXCEPT ![c] =
                               answer(LegacyResponse(404, "User not found", ""))]
               /\ UNCHANGED <<CACHE, stored>>
          ELSE IF status_code # 200
          THEN /\ flask' = [flask EXCEPT ![c] =
                               answer(LegacyResponse(status_code, "GitHub API error", ""))]
               /\ UNCHANGED <<CACHE, stored>>
          ELSE /\ CACHE' = CacheWith(k, data, now)
               /\ flask' = [flask EXCEPT ![c] = answer(LegacyResponse(200, data, ""))]
               /\ stored' = [username |-> f.username, page |-> f.page,
                            per_page |-> f.per_page, data |-> data, at |-> now]
    /\ UNCHANGED <<cache, lock, now, taskvars, pc, argvars, ret, lifevars,
                   stage, rq, cached_gists, gists, nfetch, nset, resp, landed, http,
                   self_max_size>>

\* ------------------------------------------------------- specifications ----
\* The service after startup (lifespan: the cache is built and started).
InitStarted ==
    /\ cache = <<>>
    /\ self_max_size = max_size
    /\ now = 0
    /\ lock = 0
    /\ cleanup_task = 1
    /\ tstate = [t \in Tasks |-> IF t = 1 THEN "sleep" ELSE "new"]
    /\ tcancel = [t \in Tasks |-> FALSE]
    /\ twake = [t \in Tasks |-> IF t = 1 THEN cleanup_interval ELSE 0]
    /\ pc = [c \in Clients |-> "idle"]
    /\ key = [c \in Clients |-> <<>>]
    /\ val = [c \in Clients |-> None]
    /\ victim = [c \in Clients |-> <<>>]
    /\ batch = [c \in Clients |-> NoCall]
    /\ ret = NoRet
    /\ lpc = [l \in Callers |-> "idle"]
    /\ lawait = [l \in Callers |-> 0]
    /\ calls = ""
    /\ InitRequests

ClientStep(CS, KS, VS) ==
    \/ \E c \in CS : Enter(c)
    \/ \E c \in CS : Acquire(c)
    \/ \E c \in CS, k \in KS : get(c, k)
    \/ \E c \in CS, k \in KS, v \in VS : stage[c] = "idle" /\ set_evict(c, k, v)
    \/ \E c \in CS : set_insert(c)
    \/ \E c \in CS, k \in KS : delete(c, k)
    \/ \E c \in CS : clear(c)

LoopStep ==
    \/ \E t \in Tasks : cleanup_wake(t)
    \/ \E t \in Tasks : cleanup_acquire(t)
    \/ \E t \in Tasks : cleanup_sweep(t)

\* Requests against the started cache.
Next ==
    \/ Tick
    \/ ClientStep(Clients, Keys, Values)
    \/ LoopStep

Spec == InitStarted /\ [][Next]_vars

LifeStep(LS) ==
    \/ \E t \in Tasks : cleanup_cancelled(t)
    \/ \E l \in LS : start(l)
    \/ \E l \in LS : stop(l)
    \/ \E l \in LS : stop_resume(l)

\* The lifecycle as the service runs it: one owner (lifespan) calls start and
\* stop, one after the other, while a client and the cleanup loop run.
Owner == {1}
LifeKeys == {make_cache_key(<<"o">>, 1, 3)}
LifeValues == {"v1"}

NextLife ==
    \/ Tick
    \/ ClientStep({1}, LifeKeys, LifeValues)
    \/ LoopStep
    \/ LifeStep(Owner)

SpecLife == Init /\ [][NextLife]_vars

\* The lifecycle with concurrent callers: start and stop calls of two tasks
\* overlap, while the cleanup loop runs.
NextRace ==
    \/ Tick
    \/ LoopStep
    \/ LifeStep(Callers)

SpecRace == Init /\ [][NextRace]_vars

\* The steps of a request apart from the two that answer
RequestCore(US, VS, ES) ==
    \/ \E c \in Clients, u \in US, p \in Pages, s \in PerPages : request(c, u, p, s)
    \/ \E c \in Clients : stage[c] # "idle" /\ Acquire(c)
    \/ \E c \in Clients, g \in VS : fetch_return(c, g)
    \/ \E c \in Clients, e \in ES : fetch_raise(c, e)
    \/ \E c \in Clients : request_set_evict(c)

RequestStep(US, VS) ==
    \/ RequestCore(US, VS, Errors)
    \/ \E c \in Clients : request_get(c)
    \/ \E c \in Clients : request_set_insert(c)

\* The running service: concurrent GET /{username} requests and the cleanup loop.
NextRT ==
    \/ Tick
    \/ RequestStep(ReqUsers, Values)
    \/ LoopStep

SpecRT == InitStarted /\ [][NextRT]_vars

\* Clients that also call stats().
StatKeys == {make_cache_key(<<"o">>, 1, 3), make_cache_key(<<"b">>, 1, 3)}

NextStats ==
    \/ Tick
    \/ ClientStep(Clients, StatKeys, {"v1"})
    \/ \E c \in Clients : stats_call(c)
    \/ LoopStep

SpecStats == InitStarted /\ [][NextStats]_vars

\* make_cache_key on its own: each client picks a username, page and
\* per_page and builds the key.
Alphabet == {"O", "o", "-"}
Names == UNION {[1..n -> Alphabet] : n \in 1..MaxName}
KeyPages == {1, 12}

key_inputs(c, u, p, s) ==
    /\ rq' = [rq EXCEPT ![c] = [username |-> u, page |-> p, per_page |-> s]]
    /\ key' = [key EXCEPT ![c] = <<>>]
    /\ UNCHANGED <<cache, lock, now, taskvars, pc, val, victim, batch, ret, lifevars,
                   stage, cached_gists, gists, nfetch, nset, resp, landed, http, legacyvars,
                   self_max_size>>

key_build(c) ==
    /\ rq[c] # NoRq
    /\ key' = [key EXCEPT ![c] = cache_key(c)]
    /\ UNCHANGED <<cache, lock, now, taskvars, pc, val, victim, batch, ret, lifevars,
                   reqvars, self_max_size>>

NextKey ==
    \/ \E c \in Clients, u \in Names, p \in KeyPages, s \in PerPages : key_inputs(c, u, p, s)
    \/ \E c \in Clients : key_build(c)

SpecKey == Init /\ [][NextKey]_vars

\* Requests to GitHub with every kind of outcome, each taken to the
\* response at the boundary.
GistData ==
    { <<>>,
      <<[id |-> "g1", owner |-> "O"]>>,
      <<[id |-> "g1", owner |-> "O"], [id |-> "g2", owner |-> "O", truncated |-> TRUE]>> }
RemainingValues == {Absent, "0", "5"}
ResetValues == {Absent, "", "1700000000"}
OtherStatuses == {404, 429, 500}
Outcomes ==
    {HttpxResponse(200, Headers("5", "1700000000"), "ok", d) : d \in GistData}
    \cup {HttpxResponse(403, Headers(rem, rst), "Forbidden", <<>>) :
              rem \in RemainingValues, rst \in ResetValues}
    \cup {HttpxResponse(st, h, "upstream text", <<>>) :
              st \in OtherStatuses, h \in {NoHeaders, Headers("0", "1700000000")}}
    \cup {HttpxError(e) : e \in {"ReadTimeout", "ConnectError"}}

NextHTTP ==
    \/ \E c \in Clients, u \in ReqUsers, o \in Outcomes : client_request(c, u, o)
    \/ \E c \in Clients : client_result(c)
    \/ \E c \in Clients : boundary_error(c)
    \/ \E c \in Clients : boundary_ok(c)

SpecHTTP == Init /\ [][NextHTTP]_vars

\* The legacy server: requests of two threads for one user's pages, and
\* the clock.
LegacyUsers == {<<"O">>}
LegacyPages == {1, 2}
LegacyStatuses == {200, 404, 500}
LegacyData == {"[]", "v1", "v2"}
NextLegacy ==
    \/ Tick
    \/ \E c \in Clients, u \in LegacyUsers, p \in LegacyPages, s \in PerPages :
            legacy_request(c, u, p, s)
    \/ \E c \in Clients, st \in LegacyStatuses, d \in LegacyData : legacy_fetch(c, st, d)

SpecLegacy == Init /\ [][NextLegacy]_vars

\* The started cache under fair scheduling.  The event loop runs every task
\* that is ready: the cleanup task resumes when its sleep is over, and the
\* body of an `async with self._lock`, which has no await that suspends,
\* runs to its end.  asyncio.Lock wakes its waiters in the order they came,
\* so the cleanup task gets the lock however often clients take it.
\* Nothing obliges a client to call the cache, or the clock to advance.
Release(c) ==
    \/ \E k \in StatKeys : get(c, k)
    \/ \E k \in StatKeys : stage[c] = "idle" /\ set_evict(c, k, "v1")
    \/ set_insert(c)
    \/ \E k \in StatKeys : delete(c, k)
    \/ clear(c)

NextFair ==
    \/ Tick
    \/ ClientStep(Clients, StatKeys, {"v1"})
    \/ LoopStep

Fairness ==
    /\ WF_vars(\E t \in Tasks : cleanup_wake(t))
    /\ SF_vars(\E t \in Tasks : cleanup_acquire(t))
    /\ WF_vars(\E t \in Tasks : cleanup_sweep(t))
    /\ WF_vars(\E c \in Clients : Release(c))

SpecFair == InitStarted /\ [][NextFair]_vars /\ Fairness

\* The cache with its lifecycle under fair scheduling.  A task that is ready
\* runs: a cancelled cleanup task gets its CancelledError at the await it is
\* suspended in, stop() resumes once the task it awaits has ended, and a
\* client inside the lock runs to the end of the block.  asyncio.Lock wakes
\* its waiters in the order they came, so every client that waits for the
\* lock gets it.  Nothing obliges anyone to call the cache, start or stop.
\* One client calls the cache, next to the cleanup task and the owner of the
\* lifecycle.
StopClients == {1}
StopKeys == {make_cache_key(<<"o">>, 1, 3)}

NextStop ==
    \/ Tick
    \/ ClientStep(StopClients, StopKeys, {"v1"})
    \/ LoopStep
    \/ LifeStep(Owner)

FairnessStop ==
    /\ WF_vars(\E t \in Tasks : cleanup_wake(t))
    /\ SF_vars(\E t \in Tasks : cleanup_acquire(t))
    /\ WF_vars(\E t \in Tasks : cleanup_sweep(t))
    /\ \A t \in Tasks : WF_vars(cleanup_cancelled(t))
    /\ \A l \in Owner : WF_vars(stop_resume(l))
    /\ \A c \in StopClients : SF_vars(Acquire(c))
    /\ \A c \in StopClients : WF_vars(Release(c))

SpecStop == Init /\ [][NextStop]_vars /\ FairnessStop

\* TTLCache(max_size=n), not started.
InitSize(n) ==
    /\ cache = <<>>
    /\ self_max_size = n
    /\ now = 0
    /\ lock = 0
    /\ cleanup_task = 0
    /\ tstate = [t \in Tasks |-> "new"]
    /\ tcancel = [t \in Tasks |-> FALSE]
    /\ twake = [t \in Tasks |-> 0]
    /\ pc = [c \in Clients |-> "idle"]
    /\ key = [c \in Clients |-> <<>>]
    /\ val = [c \in Clients |-> None]
    /\ victim = [c \in Clients |-> <<>>]
    /\ batch = [c \in Clients |-> NoCall]
    /\ ret = NoRet
    /\ lpc = [l \in Callers |-> "idle"]
    /\ lawait = [l \in Callers |-> 0]
    /\ calls = ""
    /\ InitRequests

\* TTLCache(max_size=0) and its clients.
InitZero == InitSize(0)

NextZero ==
    \/ Tick
    \/ ClientStep(Clients, StatKeys, Values)

SpecZero == InitZero /\ [][NextZero]_vars

\* TTLCache(max_size=3) and its clients: room for an overwrite next to
\* another entry.
InitThree == InitSize(3)
ThreeKeys == {make_cache_key(u, 1, 3) : u \in {<<"o">>, <<"b">>, <<"c">>}}

NextThree ==
    \/ Tick
    \/ ClientStep(Clients, ThreeKeys, {"v1"})

SpecThree == InitThree /\ [][NextThree]_vars

\* make_cache_key on usernames that hold the key's own delimiter text, and
\* on page numbers whose digits run into those of per_page.
DelimNames ==
    { <<"o">>, <<"O">>, <<":">>,
      <<"o", ":", "p", "a", "g", "e", "=", "1">>,
      <<"o", ":", "p", "a", "g", "e", "=", "1", "2">>,
      <<"o", ":", "p", "e", "r", "_", "p", "a", "g", "e", "=", "3">>,
      <<"o", ":", "p", "a", "g", "e", "=", "1",
        ":", "p", "e", "r", "_", "p", "a", "g", "e", "=", "3">> }
DelimPerPages == {3, 23}

NextDelim ==
    \/ \E c \in Clients, u \in DelimNames, p \in KeyPages, s \in DelimPerPages :
            key_inputs(c, u, p, s)
    \/ \E c \in Clients : key_build(c)

SpecDelim == Init /\ [][NextDelim]_vars

\* A batch of set calls on pairwise distinct keys, issued together on a new
\* cache (asyncio.gather of cache.set(key_c, value_c)): every call has reached
\* `async with self._lock`, and the calls run in whatever order the lock is
\* granted.
Setters == {1, 2, 3}
BatchKey(c) == make_cache_key(IF c = 1 THEN <<"o">> ELSE IF c = 2 THEN <<"b">> ELSE <<"c">>, 1, 3)

InitBatch ==
    /\ cache = <<>>
    /\ self_max_size = max_size
    /\ now = 0
    /\ lock = 0
    /\ cleanup_task = 0
    /\ tstate = [t \in Tasks |-> "new"]
    /\ tcancel = [t \in Tasks |-> FALSE]
    /\ twake = [t \in Tasks |-> 0]
    /\ \E vs \in [Setters -> Values \cup {None}] :
          /\ batch = [c \in Setters |->
                        IF vs[c] = None THEN NoCall ELSE Call(BatchKey(c), vs[c])]
          /\ pc = [c \in Setters |-> IF vs[c] = None THEN "idle" ELSE "wait"]
    /\ key = [c \in Setters |-> <<>>]
    /\ val = [c \in Setters |-> None]
    /\ victim = [c \in Setters |-> <<>>]
    /\ ret = NoRet
    /\ lpc = [l \in Callers |-> "idle"]
    /\ lawait = [l \in Callers |-> 0]
    /\ calls = ""
    /\ stage = [c \in Setters |-> "idle"]
    /\ rq = [c \in Setters |-> NoRq]
    /\ cached_gists = [c \in Setters |-> None]
    /\ gists = [c \in Setters |-> None]
    /\ nfetch = [c \in Setters |-> 0]
    /\ nset = [c \in Setters |-> 0]
    /\ resp = NoResp
    /\ landed = NoLanded
    /\ http = [c \in Clients |-> NoHttp]
    /\ CACHE = <<>>
    /\ flask = [c \in Clients |-> NoFlask]
    /\ stored = NoStored

NextBatch ==
    \/ \E c \in Setters : Acquire(c)
    \/ \E c \in Setters : set_evict(c, batch[c].key, batch[c].value)
    \/ \E c \in Setters : set_insert(c)

SpecBatch == InitBatch /\ [][NextBatch]_vars

\* Requests whose usernames differ by letter case only, and a fetch that may
\* return the empty list; the history of one completed miss is kept.
EmptyList == "[]"
ItemLists == {EmptyList, "v1"}
CaseUsers == {<<"O">>, <<"o">>}

NextNoted ==
    \/ Tick
    \/ RequestCore(CaseUsers, ItemLists, {"GitHubAPIError"})
    \/ \E c \in Clients : request_get_noted(c)
    \/ \E c \in Clients : request_set_insert_noted(c)
    \/ LoopStep

SpecNoted == InitStarted /\ [][NextNoted]_vars

\* ===================================================================== claims
Created(d, k) == DictGet(d, k).created_at
InCritical(c) == pc[c] \in {"locked", "insert"}

\* C1: after any completed set, and in every reachable state, the cache holds
\* at most max_size entries.
C1_SizeBound == Len(cache) <= max_size

\* A set returned having evicted, and the cache is full.
C1_Witness ==
    /\ ret.op = "set" /\ ret.evicted # <<>>
    /\ Len(cache) = max_size
    /\ \A c \in Clients : ~InCritical(c)

\* C2: get never returns an entry whose expiry has been reached; a get that
\* finds one removes it and returns (None, None); a key that is absent stays
\* absent, and get keeps returning (None, None) for it, until a set stores it.
C2_GetNeverExpired ==
    [][/\ \A c \in Clients, k \in Keys : get(c, k) =>
            LET e == DictGet(cache, k) IN
            /\ ret'.entry # NoEntry => now < ret'.entry.expires_at
            /\ (e # NoEntry /\ now >= e.expires_at) =>
                  /\ k \notin DictKeys(cache')
                  /\ ret'.value = None /\ ret'.entry = NoEntry
            /\ e = NoEntry =>
                  /\ cache' = cache
                  /\ ret'.value = None /\ ret'.entry = NoEntry
       /\ \A k \in Keys : (k \notin DictKeys(cache) /\ k \in DictKeys(cache')) =>
            \E c \in Clients : set_insert(c) /\ key[c] = k
      ]_vars

\* A get found an expired entry; its key is gone.
C2_Witness ==
    /\ ret.op = "get" /\ ret.path = "expired"
    /\ Len(cache) = 1
    /\ \E i \in 1..Len(cache) : now >= cache[i].entry.expires_at

\* C3: set(key, v) stores and returns a new entry holding v; that entry stays
\* under key until an expiring get, a delete, a clear, an eviction, a sweep or
\* another set of key; and get(key) of an unexpired entry returns its value
\* and that very entry, leaving the cache as it was.
C3_ReadYourWrite ==
    [][/\ \A c \in Clients : set_insert(c) =>
            /\ ret'.entry.value = val[c]
            /\ DictGet(cache', key[c]) = ret'.entry
       /\ \A c \in Clients, k \in Keys : get(c, k) =>
            LET e == DictGet(cache, k) IN
            (e # NoEntry /\ now < e.expires_at) =>
                /\ ret'.value = e.value /\ ret'.entry = e
                /\ cache' = cache
       /\ \A k \in Keys :
            (DictGet(cache, k) # NoEntry /\ DictGet(cache', k) # DictGet(cache, k)) =>
                \/ \E c \in Clients : set_insert(c) /\ key[c] = k
                \/ \E c \in Clients : get(c, k) /\ now >= DictGet(cache, k).expires_at
                \/ \E c \in Clients : delete(c, k)
                \/ \E c \in Clients : clear(c)
                \/ \E c \in Clients, j \in Keys, v \in Values :
                      set_evict(c, j, v) /\ Len(cache) >= max_size
                \/ \E t \in Tasks : cleanup_sweep(t) /\ now >= DictGet(cache, k).expires_at
      ]_vars

\* A get returned the second value written to a key that already held the first.
C3_Witness ==
    /\ ret.op = "get" /\ ret.path = "hit" /\ ret.value = "v2"
    /\ ret.entry.created_at > 0
    /\ \E i \in 1..Len(cache) : cache[i].entry = ret.entry

\* C4: when the cache holds exactly max_size entries, set of an absent key
\* removes exactly one entry, one of minimal created_at (so no newer entry goes
\* while an older one stays), keeps every other entry, and leaves max_size
\* entries when it returns.
C4_EvictOldest ==
    [][/\ \A c \in Clients, k \in Keys, v \in Values :
            (set_evict(c, k, v) /\ Len(cache) = max_size /\ k \notin DictKeys(cache)) =>
                \E g \in DictKeys(cache) :
                    /\ \A j \in DictKeys(cache) : Created(cache, g) <= Created(cache, j)
                    /\ cache' = DictDel(cache, g)
                    /\ Len(cache') = max_size - 1
       /\ \A c \in Clients :
            (set_insert(c) /\ victim[c] # <<>> /\ key[c] \notin DictKeys(cache)) =>
                /\ Len(cache') = max_size
                /\ \A j \in DictKeys(cache) : DictGet(cache', j) = DictGet(cache, j)
      ]_vars

\* A set of a new key returned after evicting the older of two entries of
\* different age.
C4_Witness ==
    /\ ret.op = "set" /\ ret.evicted # <<>>
    /\ ret.evicted \notin DictKeys(cache)
    /\ Len(cache) = max_size
    /\ \E i, j \in 1..Len(cache) :
          cache[i].entry.created_at < cache[j].entry.created_at

\* C5: set of a key that is present removes no other key, also when the cache
\* is full.
C5_OverwriteEvictsNothing ==
    [][\A c \in Clients, k \in Keys, v \in Values :
          (set_evict(c, k, v) /\ k \in DictKeys(cache)) =>
              \A j \in DictKeys(cache) \ {k} : j \in DictKeys(cache')
      ]_vars

\* C6: at most one of get, set, delete, clear and the sweep is inside its
\* access to the cache, it is the holder of the lock, and every change of the
\* cache is a step of that holder.
C6_MutualExclusion ==
    /\ [](/\ Cardinality({c \in Clients : InCritical(c)})
               + Cardinality({t \in Tasks : tstate[t] = "sweep"}) <= 1
          /\ \A c \in Clients : InCritical(c) => lock = c
          /\ \A t \in Tasks : tstate[t] = "sweep" => lock = -t)
    /\ [][cache' # cache =>
            \/ lock \in Clients /\ InCritical(lock) /\ pc'[lock] # pc[lock]
            \/ -lock \in Tasks /\ tstate[-lock] = "sweep" /\ tstate'[-lock] = "sleep"
         ]_vars

\* A set is between its eviction and its insertion while another client and
\* the cleanup task wait for the lock.
C6_Witness ==
    /\ \E c \in Clients : pc[c] = "insert" /\ victim[c] # <<>>
    /\ \E c \in Clients : pc[c] = "wait"
    /\ \E t \in Tasks : tstate[t] = "wait"

\* C7: once stop() has returned and until start() is called again, no cleanup
\* loop is alive, and every change of the cache is made by a client inside
\* get, set, delete or clear.
C7_NoLoopAfterStop ==
    /\ [](calls = "stop" => \A t \in Tasks : ~Alive(t))
    /\ [][(calls = "stop" /\ cache' # cache) =>
             lock \in Clients /\ InCritical(lock) /\ pc'[lock] # pc[lock]]_vars

\* stop() returned after ending a loop, and an expired entry stays in the
\* cache with no loop to remove it.
C7_Witness ==
    /\ calls = "stop"
    /\ \E t \in Tasks : tstate[t] = "done"
    /\ \E i \in 1..Len(cache) : now >= cache[i].entry.expires_at

\* C8: start() on a started cache spawns no loop and changes nothing, so
\* after any number of consecutive start() calls exactly one cleanup loop is
\* running.
C8_StartIdempotent ==
    /\ [][\A l \in Callers : (start(l) /\ cleanup_task # 0) =>
             UNCHANGED <<cache, lock, cleanup_task, tstate, tcancel, twake, lpc, lawait>>]_vars
    /\ [](calls \in {"start", "start+"} =>
             /\ Cardinality({t \in Tasks : Alive(t)}) = 1
             /\ cleanup_task # 0 /\ Alive(cleanup_task))

\* start() was called again on a started cache whose loop had run a sweep.
C8_Witness ==
    /\ calls = "start+"
    /\ \E t \in Tasks : tstate[t] = "sleep" /\ twake[t] > cleanup_interval
    /\ \E t \in Tasks : tstate[t] = "done"

\* C9: stop() on a cache that was never started, or again after a stop() with
\* no start() since, returns without error and changes neither the cache nor
\* the lifecycle state.
C9_StopIdempotent ==
    [][\A l \in Callers :
          (stop(l) /\ (calls = "stop" \/ \A t \in Tasks : tstate[t] = "new")) =>
              /\ lpc'[l] = "idle"
              /\ UNCHANGED <<cache, lock, cleanup_task, tstate, tcancel, twake, lpc, lawait>>
      ]_vars

\* stop() returned on a cache that never had a cleanup task.
C9_Witness ==
    /\ calls = "stop"
    /\ \A t \in Tasks : tstate[t] = "new"
    /\ cleanup_task = 0
    /\ Len(cache) > 0

\* C10: a request fetches at most once.  When cache.get returned a value the
\* response is cached=true, carries the stored entry's value and expires_at,
\* and the request fetched and set nothing; when cache.get returned None the
\* request fetched exactly once, and on success set exactly once and answered
\* cached=false with the expires_at of the entry it stored; a failed fetch
\* is followed by no set.
Responds(c) == stage[c] # "idle" /\ stage'[c] = "idle"
C10_FetchAtMostOnce ==
    /\ [](/\ \A c \in Clients : nfetch[c] <= 1 /\ nset[c] <= nfetch[c]
          /\ resp.error = "" /\ resp.got # None =>
                resp.cached /\ resp.gists = resp.got /\ resp.fetches = 0 /\ resp.sets = 0
          /\ resp.error = "" /\ resp.got = None =>
                ~resp.cached /\ resp.fetches = 1 /\ resp.sets = 1
          /\ resp.error \in Errors =>
                resp.got = None /\ resp.fetches = 1 /\ resp.sets = 0)
    /\ [][\A c \in Clients : Responds(c) /\ resp'.error = "" =>
            IF resp'.cached
            THEN /\ cache_key(c) \in DictKeys(cache)
                 /\ resp'.cache_expires_at = DictGet(cache, cache_key(c)).expires_at
                 /\ resp'.gists = DictGet(cache, cache_key(c)).value
                 /\ cache' = cache
            ELSE /\ cache_key(c) \in DictKeys(cache')
                 /\ resp'.cache_expires_at = DictGet(cache', cache_key(c)).expires_at
                 /\ resp'.cache_expires_at = now + ttl_seconds
                 /\ resp'.gists = DictGet(cache', cache_key(c)).value]_vars

\* A request was answered from the cache while another, having missed and
\* fetched, is about to store.
C10_Witness ==
    /\ resp.cached /\ resp.error = "" /\ resp.got \in Values /\ resp.fetches = 0
    /\ \E c \in Clients : stage[c] = "set" /\ nfetch[c] = 1 /\ nset[c] = 1

\* C11: once a request has completed on a miss, a later lookup for the same
\* page and per_page and a username equal up to letter case, made before that
\* request's entry expires and while its key has stayed in the mapping, is
\* answered cached=true with the items of that request and without a fetch.
\* This is the claim as stated; a set by another request that had missed at
\* the same time is not among the events it excludes.
EqualUpToCase(u1, u2) ==
    /\ Len(u1) = Len(u2)
    /\ \A i \in 1..Len(u1) :
          u1[i] = u2[i] \/ {u1[i], u2[i]} \in {{"O", "o"}, {"B", "b"}}
LandedKey == make_cache_key(landed.rq.username, landed.rq.page, landed.rq.per_page)
AfterLanded(c) ==
    /\ get_respond(c)
    /\ landed # NoLanded
    /\ EqualUpToCase(rq[c].username, landed.rq.username)
    /\ rq[c].page = landed.rq.page /\ rq[c].per_page = landed.rq.per_page
    /\ now < landed.expires_at
    /\ LandedKey \in DictKeys(cache)
ServedFromLanded(c) ==
    /\ stage'[c] = "idle" /\ nfetch'[c] = 0
    /\ resp'.cached /\ resp'.fetches = 0 /\ resp'.error = ""
    /\ resp'.gists = landed.gists
C11_SameItemsAfterMiss ==
    [][\A c \in Clients : AfterLanded(c) => ServedFromLanded(c)]_vars

\* C11, amended: the same, when also no later set has replaced the entry.
C11_SameItemsUnlessReplaced ==
    [][\A c \in Clients : (AfterLanded(c) /\ ~landed.replaced) => ServedFromLanded(c)]_vars

\* A request that fetched the empty list completed, and a later request
\* spelling the username in the other case was answered with it from the cache.
C11_Witness ==
    /\ landed # NoLanded /\ ~landed.replaced
    /\ landed.gists = EmptyList
    /\ landed.served # <<>> /\ landed.served # landed.rq.username
    /\ resp.cached /\ resp.gists = EmptyList /\ resp.fetches = 0

C13_NoCoalescing ==
    [][/\ \A c \in Clients : \A o \in Clients \ {c} :
            (/\ get_respond(c)
             /\ stage[o] \in {"fetch", "set"} /\ cache_key(o) = cache_key(c)
             /\ LET e == DictGet(cache, cache_key(c)) IN
                    e = NoEntry \/ now >= e.expires_at) =>
                stage'[c] = "fetch" /\ nfetch'[c] = nfetch[c] + 1
       /\ \A c \in Clients : set_respond(c) =>
            /\ DictGet(cache', key[c]).value = gists[c]
            /\ key[c] \in DictKeys(cache) =>
                  /\ Len(cache') = Len(cache)
                  /\ DictGet(cache', key[c]).expires_at = now + ttl_seconds
      ]_vars

\* Two requests for one key both missed and fetched; one completed with its
\* list, then the other stored a different list over its unexpired entry.
C13_Witness ==
    /\ landed # NoLanded /\ landed.replaced
    /\ now < landed.expires_at
    /\ LandedKey \in DictKeys(cache)
    /\ DictGet(cache, LandedKey).value # landed.gists
    /\ ~resp.cached /\ resp.error = "" /\ resp.fetches = 1 /\ resp.sets = 1
    /\ resp.gists = DictGet(cache, LandedKey).value

\* C14: when every set call of a batch on pairwise distinct keys has returned,
\* the cache is what applying the calls one at a time, in some order, gives:
\* it holds min(number of calls, max_size) entries, no key twice, and every
\* key in it holds the value its call wrote.
Issued == {c \in Setters : batch[c] # NoCall}
Orders(P) == {o \in [1..Cardinality(P) -> P] : \A i, j \in DOMAIN o : o[i] = o[j] => i = j}
RECURSIVE OneAtATime(_, _, _)
OneAtATime(o, d, t) ==
    IF o = <<>> THEN d
    ELSE LET room == IF Len(d) >= max_size
                     THEN DictDel(d, (CHOOSE x \in {d[i] : i \in 1..Len(d)} :
                             \A j \in 1..Len(d) : x.entry.created_at <= d[j].entry.created_at).key)
                     ELSE d
         IN OneAtATime(Tail(o),
                       Append(room, [key |-> batch[Head(o)].key,
                                     entry |-> CacheEntry(batch[Head(o)].value, t + ttl_seconds, t)]),
                       t + 1)
KeysAndValues(d) == [i \in 1..Len(d) |-> <<d[i].key, d[i].entry.value>>]
Min(a, b) == IF a <= b THEN a ELSE b
BatchDone == \A c \in Setters : pc[c] = "idle"
C14_BatchSerial ==
    BatchDone =>
        /\ Len(cache) = Min(Cardinality(Issued), max_size)
        /\ \A i, j \in 1..Len(cache) : cache[i].key = cache[j].key => i = j
        /\ \A i \in 1..Len(cache) : \E c \in Issued :
              cache[i].key = batch[c].key /\ cache[i].entry.value = batch[c].value
        /\ \E o \in Orders(Issued) :
              KeysAndValues(cache) = KeysAndValues(OneAtATime(o, <<>>, 0))

\* Three calls have returned, the first key stored was evicted, and the two
\* entries left hold different values.
C14_Witness ==
    /\ BatchDone /\ Cardinality(Issued) = 3
    /\ Len(cache) = max_size
    /\ ret.op = "set" /\ ret.evicted # <<>>
    /\ cache[1].entry.value # cache[2].entry.value

\* C15: a request that waits for its fetch does not hold the lock and is in
\* no cache operation, so whenever the lock is free a waiting get, set, delete
\* or clear of another request, and the waiting sweep, can take it; and once
\* taken, the operation can finish while the fetch is still pending.
Fetching == {c \in Clients : stage[c] = "fetch"}
C15_NoLockAcrossFetch ==
    Fetching # {} =>
        /\ \A c \in Fetching : lock # c /\ ~InCritical(c) /\ pc[c] # "wait"
        /\ \A o \in Clients \ Fetching :
              /\ (pc[o] = "wait" /\ lock = 0) => ENABLED Acquire(o)
              /\ (pc[o] = "locked" /\ stage[o] = "get") => ENABLED get_respond(o)
              /\ (pc[o] = "locked" /\ stage[o] = "set") => ENABLED request_set_evict(o)
              /\ pc[o] = "insert" => ENABLED set_respond(o)
        /\ \A t \in Tasks :
              /\ (tstate[t] = "wait" /\ ~tcancel[t] /\ lock = 0) => ENABLED cleanup_acquire(t)
              /\ tstate[t] = "sweep" => ENABLED cleanup_sweep(t)

\* While one request waits for its fetch, the sweep is inside the lock and
\* another request, which has stored its list meanwhile, waits for the lock.
C15_Witness ==
    /\ \E c \in Clients : stage[c] = "fetch" /\ nfetch[c] = 1
    /\ \E t \in Tasks : tstate[t] = "sweep" /\ lock = -t
    /\ \E o \in Clients : stage[o] = "get" /\ pc[o] = "wait"
    /\ Len(cache) > 0

\* C16: delete(key) returns True exactly when key is in the mapping at the
\* call; it then removes that key and no other, and otherwise changes
\* nothing.  A key that is absent stays absent until a set stores it, so a
\* second delete, and a delete of a key never inserted, return False.
C16_DeleteOnce ==
    [][/\ \A c \in Clients, k \in Keys : delete(c, k) =>
            /\ ret'.value = (IF k \in DictKeys(cache) THEN "True" ELSE "False")
            /\ DictKeys(cache') = DictKeys(cache) \ {k}
            /\ \A j \in DictKeys(cache') : DictGet(cache', j) = DictGet(cache, j)
            /\ k \notin DictKeys(cache) => cache' = cache
            /\ k \in DictKeys(cache) => Len(cache') = Len(cache) - 1
       /\ \A k \in Keys : (k \notin DictKeys(cache) /\ k \in DictKeys(cache')) =>
            \E c \in Clients : pc[c] = "insert" /\ pc'[c] = "idle" /\ key[c] = k
      ]_vars

\* A delete returned True and left the other entry in place.
C16_Witness ==
    /\ ret.op = "delete" /\ ret.value = "True"
    /\ Len(cache) = 1
    /\ \A c \in Clients : pc[c] = "idle"

\* C17: clear() leaves the mapping empty, so stats() right after it reports
\* size 0, and it leaves the lifecycle state as it is: the handle, every
\* cleanup task (running, cancelled or ended) and any stop() in progress.
C17_ClearKeepsLifecycle ==
    [][\A c \in Clients : clear(c) =>
          /\ stats(cache').size = 0
          /\ DictKeys(cache') = {}
          /\ UNCHANGED <<cleanup_task, tstate, tcancel, twake, lpc, lawait, calls>>
          /\ \A t \in Tasks : Alive(t)' = Alive(t)
      ]_vars

\* clear() returned on a started cache, later than the ttl of anything stored;
\* the loop is still asleep.
C17_Witness ==
    /\ ret.op = "clear" /\ cache = <<>>
    /\ calls \in {"start", "start+"}
    /\ cleanup_task # 0 /\ tstate[cleanup_task] = "sleep"
    /\ now >= ttl_seconds

\* C18: stats() changes nothing; the size it returns is the number of entries
\* in the mapping, and it is never taken while a get, set, delete, clear or
\* sweep is between its first and last step; max_size and ttl_seconds are
\* the constructor's values.
C18_StatsSnapshot ==
    [][\A c \in Clients : stats_call(c) =>
          /\ UNCHANGED <<cache, now, lock, cleanup_task, tstate, tcancel, twake, pc,
                         key, val, victim, lpc, lawait>>
          /\ ret'.entry.size = Cardinality(DictKeys(cache))
          /\ ret'.entry.max_size = 2 /\ ret'.entry.ttl_seconds = 1
          /\ \A o \in Clients : ~InCritical(o)
          /\ \A t \in Tasks : tstate[t] # "sweep"
          /\ lock = 0
      ]_vars

\* stats() returned size 2 while the other client waits for the lock.
C18_Witness ==
    /\ ret.op = "stats" /\ ret.entry.size = 2 /\ Len(cache) = 2
    /\ \E c \in Clients : pc[c] = "wait"

\* C19: get(key) of a key that is not in the mapping returns (None, None), as
\* a normal return, and leaves the mapping as it is.
C19_GetAbsent ==
    [][\A c \in Clients, k \in Keys : (get(c, k) /\ k \notin DictKeys(cache)) =>
          /\ ret'.op = "get" /\ ret'.path = "miss"
          /\ ret'.value = None /\ ret'.entry = NoEntry
          /\ cache' = cache
          /\ lock' = 0 /\ pc'[c] = "idle"
      ]_vars

\* A get missed on a full mapping that holds the two other keys.
C19_Witness ==
    /\ ret.op = "get" /\ ret.path = "miss" /\ ret.value = None
    /\ Len(cache) = max_size
    /\ \A c \in Clients : pc[c] = "idle"

\* C20: two usernames that differ by letter case only give, with the same
\* page and per_page, the same key.
C20_KeyCaseInsensitive ==
    \A c1, c2 \in Clients :
        (/\ key[c1] # <<>> /\ key[c2] # <<>>
         /\ EqualUpToCase(rq[c1].username, rq[c2].username)
         /\ rq[c1].page = rq[c2].page /\ rq[c1].per_page = rq[c2].per_page) =>
            key[c1] = key[c2]

\* Two keys were built from "o-" and "O-" on page 12, and they are equal.
C20_Witness ==
    /\ rq[1].username = <<"o", "-">> /\ rq[2].username = <<"O", "-">>
    /\ rq[1].page = 12 /\ rq[2].page = 12
    /\ key[1] # <<>> /\ key[1] = key[2]

\* C21: two keys are equal only if they were built from usernames equal up
\* to letter case, the same page and the same per_page, also for usernames
\* that contain ":", "page=" or "per_page=".
C21_KeyInjective ==
    \A c1, c2 \in Clients :
        (key[c1] # <<>> /\ key[c1] = key[c2]) =>
            /\ EqualUpToCase(rq[c1].username, rq[c2].username)
            /\ rq[c1].page = rq[c2].page
            /\ rq[c1].per_page = rq[c2].per_page

\* Keys were built from "o:page=1" on page 12 and from "o:page=12" on page
\* 1, with per_page 3 and 23, and they differ.
C21_Witness ==
    /\ rq[1].username = <<"o", ":", "p", "a", "g", "e", "=", "1">>
    /\ rq[2].username = <<"o", ":", "p", "a", "g", "e", "=", "1", "2">>
    /\ rq[1].page = 12 /\ rq[2].page = 1
    /\ rq[1].per_page = 3 /\ rq[2].per_page = 23
    /\ key[1] # <<>> /\ key[2] # <<>> /\ key[1] # key[2]

\* The failure that a finished request of client c ended with belongs to
\* category cat.
Failed(c, cat) == http[c].stage = "done" /\ http[c].result.type = cat

\* C22: a user-not-found failure is answered 404 "user_not_found", a rate
\* limit 429 "rate_limit_exceeded", an API, transport or timeout error 502
\* or 504 "github_api_error"; failures of two different categories never get
\* the same status or the same error code.
C22_ErrorMapping ==
    /\ \A c \in Clients :
          /\ Failed(c, "GitHubUserNotFoundError") =>
                /\ http[c].response.status_code = 404
                /\ http[c].response.content.error = "user_not_found"
          /\ Failed(c, "GitHubRateLimitError") =>
                /\ http[c].response.status_code = 429
                /\ http[c].response.content.error = "rate_limit_exceeded"
          /\ Failed(c, "GitHubAPIError") =>
                /\ http[c].response.status_code \in {502, 504}
                /\ http[c].response.content.error = "github_api_error"
    /\ \A c1, c2 \in Clients :
          (/\ http[c1].stage = "done" /\ http[c2].stage = "done"
           /\ http[c1].result.type \in Errors /\ http[c2].result.type \in Errors
           /\ http[c1].result.type # http[c2].result.type) =>
              /\ http[c1].response.status_code # http[c2].response.status_code
              /\ http[c1].response.content.error # http[c2].response.content.error

\* An upstream 429 was answered as an API error next to a rate limit that
\* was answered 429.
C22_Witness ==
    /\ Failed(1, "GitHubAPIError") /\ http[1].upstream.status_code = 429
    /\ http[1].response.status_code = 502
    /\ Failed(2, "GitHubRateLimitError") /\ http[2].response.status_code = 429

\* C23: a rate-limit failure with a reset time r is answered 429 with the
\* header X-RateLimit-Reset equal to r, which is the value of that header
\* in GitHub's response; one without a reset time (None, or an empty header
\* value) is answered 429 without the header.
C23_ResetHeader ==
    \A c \in Clients :
        Failed(c, "GitHubRateLimitError") =>
            LET r == http[c].result.reset_time
                up == http[c].upstream.headers
                out == http[c].response
            IN /\ out.status_code = 429
               /\ r \notin {None, ""} =>
                     /\ Reset \in DOMAIN out.headers /\ out.headers[Reset] = r
                     /\ Reset \in DOMAIN up /\ up[Reset] = r
               /\ r \in {None, ""} => Reset \notin DOMAIN out.headers
               /\ r = None <=> Reset \notin DOMAIN up

\* One rate limit was answered with the reset time 1700000000 in the
\* header, another, which had none, without the header.
C23_Witness ==
    /\ Failed(1, "GitHubRateLimitError") /\ Failed(2, "GitHubRateLimitError")
    /\ http[1].result.reset_time = "1700000000"
    /\ http[1].response.headers[Reset] = "1700000000"
    /\ http[2].result.reset_time = None
    /\ DOMAIN http[2].response.headers = {}

\* GitHubClient.get_user_gists has returned or raised for client c.
Classified(c) == http[c].stage \in {"returned", "raised", "done"}

\* C28: what GitHubClient.get_user_gists makes of each outcome: 200 gives
\* the parsed list; 404 user-not-found with the username; 403 with
\* X-RateLimit-Remaining "0" or missing a rate limit with the
\* X-RateLimit-Reset value; any other 403 an API error 403; any other
\* status s an API error s; a timeout an API error 504; any other transport
\* error an API error 502.
C28_Classification ==
    \A c \in Clients :
        Classified(c) =>
            LET o == http[c].upstream
                r == http[c].result
                rate == Remaining \notin DOMAIN o.headers \/ o.headers[Remaining] = "0"
            IN /\ (o.kind = "Response" /\ o.status_code = 200) =>
                     /\ r.type = "return" /\ Len(r.value) = Len(o.data)
                     /\ \A i \in 1..Len(o.data) :
                           /\ r.value[i].id = o.data[i].id
                           /\ r.value[i].owner = o.data[i].owner
                           /\ r.value[i].truncated =
                                 ("truncated" \in DOMAIN o.data[i] /\ o.data[i].truncated)
               /\ (o.kind = "Response" /\ o.status_code = 404) =>
                     r = [type |-> "GitHubUserNotFoundError", username |-> http[c].username]
               /\ (o.kind = "Response" /\ o.status_code = 403 /\ rate) =>
                     /\ r.type = "GitHubRateLimitError"
                     /\ r.reset_time = IF Reset \in DOMAIN o.headers
                                       THEN o.headers[Reset] ELSE None
               /\ (o.kind = "Response" /\ o.status_code = 403 /\ ~rate) =>
                     r.type = "GitHubAPIError" /\ r.status_code = 403
               /\ (o.kind = "Response" /\ o.status_code \notin {200, 403, 404}) =>
                     r.type = "GitHubAPIError" /\ r.status_code = o.status_code
               /\ o.kind \in {"ConnectTimeout", "ReadTimeout"} =>
                     r.type = "GitHubAPIError" /\ r.status_code = 504
               /\ o.kind = "ConnectError" =>
                     r.type = "GitHubAPIError" /\ r.status_code = 502

\* A 403 without the X-RateLimit-Remaining header was taken for a rate
\* limit, and a read timeout for an API error 504.
C28_Witness ==
    /\ Classified(1) /\ http[1].upstream.status_code = 403
    /\ Remaining \notin DOMAIN http[1].upstream.headers
    /\ http[1].result.type = "GitHubRateLimitError"
    /\ Classified(2) /\ http[2].upstream.kind = "ReadTimeout"
    /\ http[2].result.type = "GitHubAPIError" /\ http[2].result.status_code = 504

\* Client c sends a request to the legacy server in this step.
LegacySends(c) == flask[c].stage \in {"idle", "done"} /\ flask'[c] # flask[c]

\* C29: in the legacy server a request that repeats, within CACHE_TTL, the
\* last request that stored its data is answered from the cache with that
\* data and without a call of requests.get; a request for another page of
\* the same user, when the cache holds that one entry only, goes upstream.
C29_LegacyCaching ==
    [][\A c \in Clients :
          (LegacySends(c) /\ stored # NoStored /\ now - stored.at < CACHE_TTL
             /\ flask'[c].username = stored.username) =>
                IF flask'[c].page = stored.page /\ flask'[c].per_page = stored.per_page
                THEN /\ flask'[c].stage = "done" /\ flask'[c].calls = 0
                     /\ flask'[c].response.x_cache = "HIT"
                     /\ flask'[c].response.json = stored.data
                ELSE Cardinality(DOMAIN CACHE) = 1 => flask'[c].stage = "fetch"
      ]_vars

\* C24: a cache built with max_size = 0 never holds an entry.
C24_ZeroCapacityHoldsNothing == self_max_size = 0 => cache = <<>>

\* C25: a pass of the cleanup loop deletes every entry whose expires_at has
\* been reached and no other; the entries that stay keep their values,
\* their timestamps and their order, and nothing is added.
C25_SweepExact ==
    [][\A t \in Tasks :
          cleanup_sweep(t) =>
              /\ \A i \in 1..Len(cache) :
                    IF now >= cache[i].entry.expires_at
                    THEN cache[i].key \notin DictKeys(cache')
                    ELSE \E j \in 1..Len(cache') : cache'[j] = cache[i]
              /\ \A j \in 1..Len(cache') : \E i \in 1..Len(cache) : cache'[j] = cache[i]
              /\ \A j1, j2 \in 1..Len(cache') :
                    j1 < j2 => \E i1, i2 \in 1..Len(cache) :
                                  i1 < i2 /\ cache[i1] = cache'[j1] /\ cache[i2] = cache'[j2]
      ]_vars

\* A pass has just run at time 1 or later and has left one entry, which is
\* not expired.
C25_Witness ==
    /\ now >= 1 /\ tstate[1] = "sleep" /\ twake[1] = now + cleanup_interval
    /\ lock = 0
    /\ Len(cache) = 1 /\ now < cache[1].entry.expires_at

RECURSIVE EvictionOrder(_)
EvictionOrder(d) ==
    IF d = <<>> THEN <<>>
    ELSE <<MinCreatedKeyFirst(d)>> \o EvictionOrder(evict_oldest_unlocked(d))
DictOrder(d) == [i \in 1..Len(d) |-> d[i].key]
Place(k, order) == CHOOSE i \in 1..Len(order) : order[i] = k

\* set stores, in this step, an entry for a key that is present.
Overwrites(c) == set_insert(c) /\ key[c] \in DictKeys(cache)

\* The entry stored has the timestamps of this step.
FreshEntry(c) ==
    LET e == DictGet(cache', key[c])
    IN /\ e.value = val[c]
       /\ e.expires_at = now + ttl_seconds
       /\ now <= e.created_at /\ e.created_at <= now'

Holds(k, x) == k \in DictKeys(cache) /\ DictGet(cache, k).expires_at = x

\* C26: with the cleanup task running, an entry whose expiry has been
\* reached is eventually out of the cache, whatever the clients do or do
\* not do.
C26_ExpiredEventuallyRemoved ==
    \A k \in StatKeys, x \in 0..(MaxTime + ttl_seconds) :
        (Holds(k, x) /\ now >= x) ~> ~Holds(k, x)

\* An entry has reached its expiry while the cleanup task sleeps and no
\* client is in the cache or on its way into it.
C26_Witness ==
    /\ \E i \in 1..Len(cache) : now >= cache[i].entry.expires_at
    /\ tstate[1] = "sleep" /\ lock = 0
    /\ \A c \in Clients : pc[c] = "idle"

\* Client c's set evicts, in this step, the entry under key g.
Evicts(c, g) ==
    /\ \E k \in Keys, v \in Values : set_evict(c, k, v)
    /\ g \in DictKeys(cache) /\ g \notin DictKeys(cache')
Expires(d, k) == DictGet(d, k).expires_at

\* C31 as stated: the entry that an eviction removes has the earliest
\* expires_at of all entries, and no eviction removes an entry that has not
\* expired while an expired one stays.
C31_EvictsEarliestExpiry ==
    [][\A c \in Clients, g \in Keys :
          Evicts(c, g) =>
              /\ \A j \in DictKeys(cache) : Expires(cache, g) <= Expires(cache, j)
              /\ now < Expires(cache, g) =>
                    \A j \in DictKeys(cache') : now < Expires(cache', j)
      ]_vars

\* C31, amended: the entry that an eviction removes has the earliest
\* created_at, and an expires_at no later than that of any entry with a
\* later created_at; an entry that expires earlier, or has expired, stays
\* behind only if it has the same created_at and follows the evicted key in
\* the dict.
C31_EvictsEarliestCreated ==
    [][\A c \in Clients, g \in Keys :
          Evicts(c, g) =>
              \A j \in DictKeys(cache) :
                  /\ Created(cache, g) <= Created(cache, j)
                  /\ Created(cache, g) < Created(cache, j) =>
                        Expires(cache, g) <= Expires(cache, j)
                  /\ Expires(cache, j) < Expires(cache, g) =>
                        /\ Created(cache, j) = Created(cache, g)
                        /\ Place(g, DictOrder(cache)) < Place(j, DictOrder(cache))
      ]_vars

\* A set has evicted an entry of a full cache and waits to store its own;
\* of the two entries left, the first has expired and the second has not.
C31_Witness ==
    \E c \in Clients :
        /\ pc[c] = "insert" /\ victim[c] # <<>>
        /\ Len(cache) = 2
        /\ now >= cache[1].entry.expires_at
        /\ now < cache[2].entry.expires_at

\* C32: whatever the interleaving of start() and stop() calls of concurrent
\* callers, at most one cleanup loop is alive, and none is alive while
\* _cleanup_task is None.
C32_OneLoopWithHandle ==
    /\ Cardinality({t \in Tasks : Alive(t)}) <= 1
    /\ cleanup_task = 0 => \A t \in Tasks : ~Alive(t)

\* C33: under fair scheduling every get, set, delete and clear that has been
\* called returns, and a stop() that awaits the cleanup task returns; the
\* lock is held by a cleanup task only while that task is inside its sweep,
\* never by one that was cancelled and has ended, so that a client waiting
\* for the lock after stop() gets it.
C33_CallsReturn ==
    /\ \A c \in StopClients : (pc[c] # "idle") ~> (pc[c] = "idle")
    /\ \A l \in Owner : (lpc[l] = "await") ~> (lpc[l] = "idle")
    /\ [](\A t \in Tasks : lock = -t => tstate[t] = "sweep")
    /\ \A c \in StopClients : (calls = "stop" /\ pc[c] = "wait") ~> (pc[c] = "locked")

\* stop() has returned after cancelling a cleanup task, no task is left, and
\* a client waits for the lock.
C33_Witness ==
    /\ calls = "stop" /\ cleanup_task = 0
    /\ \E t \in Tasks : tstate[t] = "done" /\ tcancel[t]
    /\ \A t \in Tasks : ~Alive(t)
    /\ \E c \in StopClients : pc[c] = "wait"

\* The keys that this step takes out of the cache.
Removed == DictKeys(cache) \ DictKeys(cache')

\* C34: however get on an expired key, delete, the eviction of set, clear
\* and the sweep interleave, every removal is of a key that is in the cache
\* at that step, so no entry is removed twice and no operation fails on a
\* key that another one has removed: get removes its key exactly when it
\* reports it expired, delete exactly when it returns True, set exactly its
\* one victim, clear the keys present; the sweep, holding the lock, removes
\* exactly the keys that are expired in the cache as it is at that step;
\* and nothing is removed by a step taken without the lock.
C34_RemovedOnce ==
    [][/\ \A c \in Clients, k \in Keys :
            get(c, k) => /\ ret'.path # "KeyError"
                         /\ Removed = IF ret'.path = "expired" THEN {k} ELSE {}
       /\ \A c \in Clients, k \in Keys :
            delete(c, k) => /\ ret'.value \in {"True", "False"}
                            /\ Removed = IF ret'.value = "True" THEN {k} ELSE {}
       /\ \A c \in Clients, k \in Keys, v \in Values :
            set_evict(c, k, v) =>
                Removed = IF victim'[c] = <<>> THEN {} ELSE {victim'[c]}
       /\ \A c \in Clients : clear(c) => Removed = DictKeys(cache)
       /\ \A t \in Tasks :
            cleanup_sweep(t) =>
                /\ lock = -t
                /\ Removed = {k \in DictKeys(cache) : is_expired(DictGet(cache, k), now)}
       /\ Removed # {} => lock # 0
       /\ \A k \in DictKeys(cache) \ Removed :
            \/ DictGet(cache', k) = DictGet(cache, k)
            \/ \E c \in Clients : set_insert(c) /\ key[c] = k
      ]_vars

\* A get has just taken the expired entry out, leaving the cache empty,
\* while the cleanup task and the other client wait for the lock.
C34_Witness ==
    /\ ret.op = "get" /\ ret.path = "expired"
    /\ cache = <<>> /\ lock = 0
    /\ \E t \in Tasks : tstate[t] = "wait"
    /\ \E c \in Clients : pc[c] = "wait"

\* C35: a GitHubAPIError is answered with status 502 whatever status_code
\* the error carries: a timeout (504), a transport failure (502) and an
\* upstream status other than 200 (403, 429, 5xx) get the same status, error
\* code, message and headers, and the answers differ in nothing but the
\* detail, which is the error's own message.
C35_ApiErrorAlways502 ==
    /\ \A c \in Clients :
          Failed(c, "GitHubAPIError") =>
              /\ http[c].response.status_code = 502
              /\ http[c].response.content.detail = http[c].result.message
    /\ \A c1, c2 \in Clients :
          (Failed(c1, "GitHubAPIError") /\ Failed(c2, "GitHubAPIError")) =>
              /\ [http[c1].response EXCEPT !.content.detail = <<>>]
                    = [http[c2].response EXCEPT !.content.detail = <<>>]
              /\ http[c1].result.message = http[c2].result.message
                    => http[c1].response = http[c2].response

\* A timeout, whose error carries 504, and an upstream 500 were both
\* answered 502, with different details.
C35_Witness ==
    /\ Failed(1, "GitHubAPIError") /\ IsTimeoutException(http[1].upstream)
    /\ http[1].result.status_code = 504 /\ http[1].response.status_code = 502
    /\ Failed(2, "GitHubAPIError") /\ http[2].result.status_code = 500
    /\ http[2].response.status_code = 502
    /\ http[1].response.content.detail # http[2].response.content.detail

====
